---- MODULE Spec2Model ----
(***************************************************************************)
(* A model of pytregex: the eager parser/matcher of tregex.py (the pattern *)
(* is matched against the tree while it is parsed) and the condition       *)
(* algebra of condition.py (And / Or / Not / Opt / Condition, evaluated by *)
(* searchNodeIterator).                                                    *)
(*                                                                         *)
(* Strings of the program that are inspected character by character        *)
(* (labels, ids, regexes) are sequences of one-character strings.  Names   *)
(* of nodes (=name) are atomic strings.                                    *)
(***************************************************************************)
EXTENDS Integers, Sequences, FiniteSets, TLC

VARIABLES
    text,               \* tregex.py: the lexemes of the pattern string, where the run starts from it
    tree,               \* the tree handed to findall / searchNodeIterator
    engine,             \* "tregex" (tregex.py) or "condition" (condition.py)
    pat,                \* the pattern as written (tregex.py) or its AST (condition.py)
    pc,                 \* position of the run
    named_nodes,        \* tregex.py: the NamedNodes of the anchor (p[1])
    conditions,         \* tregex.py: the parsed and_conditions / or_conditions (p[2])
    alt,                \* match_or_conditions: index of the current alternative
    idx,                \* match_and_conditions: index of this_node in named_nodes.nodes
    cur,                \* match_and_conditions: (match_count_cur_node, backrefs_map_cur_node)
    res,                \* match_and_conditions / match_or_conditions: res
    backrefs_map,       \* match_and_conditions / match_or_conditions: backrefs_map
    self_backrefs_map,  \* TregexPattern.backrefs_map
    result,             \* what findall / searchNodeIterator handed back
    backref_nodes,      \* condition.py: BackRef.nodes of the anchor's backref
    returned            \* the calls on the pattern that have returned: [tree, result, bindings]

vars == <<text, tree, engine, pat, pc, named_nodes, conditions, alt, idx, cur, res,
          backrefs_map, self_backrefs_map, result, backref_nodes, returned>>

----------------------------------------------------------------------------
(* Bounds *)

\* the largest number of nodes of a tree
MaxNodes == 3

\* the largest number of nodes of a tree that one node description is matched on
MaxLabelledNodes == 2

\* the largest number of calls of findall / searchNodeIterator on one pattern
MaxCalls == 2

\* the largest number of nodes of the tree of a further call
MaxNextNodes == 2

\* the largest number of conditions of an And or Or that is given a further one
MaxConditions == 3

----------------------------------------------------------------------------
(* Python values *)

\* None, where a label or an attribute (a sequence of characters) is expected
None == <<"None">>

\* None, where a name (an atomic string) is expected
NoName == "None"

\* the empty dict
EmptyMap == [n \in {} |-> <<>>]

Range(s) == { s[k] : k \in 1..Len(s) }

\* s.count(x)
Count(x, s) == Cardinality({ k \in 1..Len(s) : s[k] = x })

Min(S) == CHOOSE x \in S : \A y \in S : x <= y

Max(S) == CHOOSE x \in S : \A y \in S : x >= y

\* the concatenation of the sequences of a sequence of sequences
RECURSIVE Flatten(_)
Flatten(ss) == IF ss = <<>> THEN <<>> ELSE Head(ss) \o Flatten(Tail(ss))

\* [x for _ in range(n)]
Repeat(x, n) == [k \in 1..n |-> x]

\* d[name] = value for every (name, value) of `other`, on a dict d
DictUpdate(d, other) ==
    [n \in DOMAIN d \cup DOMAIN other |-> IF n \in DOMAIN other THEN other[n] ELSE d[n]]

\* d[name] = d.get(name, []) + nodes for every (name, nodes) of `other`
DictExtend(d, other) ==
    [n \in DOMAIN d \cup DOMAIN other |->
        IF n \in DOMAIN other
        THEN (IF n \in DOMAIN d THEN d[n] ELSE <<>>) \o other[n]
        ELSE d[n]]

----------------------------------------------------------------------------
(* The Tree interface.  A tree is [parent, label]: its nodes are 1..n in    *)
(* preorder, parent[k] is the parent of node k (0 for the root) and         *)
(* label[k] its label or None.  Children are ordered by their number.       *)

RECURSIVE Ancestors(_, _)
Ancestors(par, k) == IF par[k] = 0 THEN {} ELSE {par[k]} \cup Ancestors(par, par[k])

\* parent vectors that number the nodes of a tree in preorder
ParentVectors(n) ==
    { p \in [1..n -> 0..n] :
        /\ p[1] = 0
        /\ \A k \in 2..n : p[k] \in ({k - 1} \cup Ancestors(p, k - 1)) }

\* labels of the trees that conditions are matched on
PlainLabels == { <<"A">>, <<"B">> }

\* labels of the trees that node descriptions are matched on
RichLabels == { <<"A">>, <<"a", "-", "B">>, None }

TreesOver(labels, size) ==
    UNION { { [parent |-> p, label |-> l] : p \in ParentVectors(n), l \in [1..n -> labels] }
            : n \in 1..size }

Nodes == 1..Len(tree.parent)

\* node.label
label(node) == tree.label[node]

\* node.parent (0 stands for None)
parent(node) == tree.parent[node]

\* node.basic_category: the label up to the first of - = #
basic_category(node) ==
    LET l == tree.label[node]
        cut == { k \in 1..Len(l) : l[k] \in {"-", "=", "#"} }
    IN  IF l = None THEN None
        ELSE IF cut = {} THEN l
        ELSE SubSeq(l, 1, Min(cut) - 1)

\* list(node.preorder_iter())
preorder_iter(node) ==
    SelectSeq([k \in 1..Len(tree.parent) |-> k],
              LAMBDA k : k = node \/ node \in Ancestors(tree.parent, k))

\* getattr(node, "basic_category" if use_basic_cat else "label")
getattr(node, use_basic_cat) == IF use_basic_cat THEN basic_category(node) ELSE label(node)

----------------------------------------------------------------------------
(* The relation library: Relation.parent_of, child_of, dominates,          *)
(* dominated_by and sister_of as predicates on (this, that).               *)

Rels == {"<", ">", "<<", ">>", "$"}

\* the relation `<...` with the argument i, for i = 1, 2, ...
MultiRels == << "<...1", "<...2", "<...3", "<...4" >>

\* Relation.has_ith_child(this, that, i): that is the i-th child of this,
\* from the left for i >= 1 and from the right for i <= -1
has_ith_child(this_node, that_node, i) ==
    /\ parent(that_node) = this_node
    /\ IF i > 0
       THEN Cardinality({ k \in 1..that_node : parent(k) = this_node }) = i
       ELSE Cardinality({ k \in that_node..Len(tree.parent) : parent(k) = this_node }) = -i

\* Relation.ith_child_of(this, that, i): this is the i-th child of that
ith_child_of(this_node, that_node, i) == has_ith_child(that_node, this_node, i)

\* the leaves below node, from left to right
Leaves(node) ==
    SelectSeq(preorder_iter(node),
              LAMBDA k : k # node /\ \A c \in 1..Len(tree.parent) : parent(c) # k)

\* Relation.ancestor_of_ith_leaf(this, that, i): that is the i-th leaf below this
ancestor_of_ith_leaf(this_node, that_node, i) ==
    LET leaves == Leaves(this_node)
        at == IF i > 0 THEN i ELSE Len(leaves) + 1 + i
    IN  at \in 1..Len(leaves) /\ leaves[at] = that_node

\* the largest index that a pattern gives to a relation
MaxIndex == 2

\* the relations that take a number
NumArgOps == {"has_ith_child", "ith_child_of", "ancestor_of_ith_leaf"}

\* the relation op with the argument arg, as the rel of a condition
WithNumArg(op, arg) == op \o ToString(arg)

NumArgRels == { WithNumArg(op, arg) : op \in NumArgOps, arg \in (-MaxIndex)..MaxIndex }

condition_func(rel, this_node, that_node) ==
    CASE rel = "<"  -> parent(that_node) = this_node
      [] rel = ">"  -> parent(this_node) = that_node
      [] rel = "<<" -> this_node \in Ancestors(tree.parent, that_node)
      [] rel = ">>" -> that_node \in Ancestors(tree.parent, this_node)
      [] rel = "$"  -> this_node # that_node /\ parent(this_node) # 0
                       /\ parent(this_node) = parent(that_node)
      [] rel \in Range(MultiRels) ->
            has_ith_child(this_node, that_node,
                          CHOOSE i \in 1..Len(MultiRels) : MultiRels[i] = rel)
      [] rel \in NumArgRels ->
            LET arg == CHOOSE i \in (-MaxIndex)..MaxIndex :
                            \E op \in NumArgOps : WithNumArg(op, i) = rel
            IN  CASE rel = WithNumArg("has_ith_child", arg) ->
                        has_ith_child(this_node, that_node, arg)
                  [] rel = WithNumArg("ith_child_of", arg) ->
                        ith_child_of(this_node, that_node, arg)
                  [] rel = WithNumArg("ancestor_of_ith_leaf", arg) ->
                        ancestor_of_ith_leaf(this_node, that_node, arg)

\* the nodes `that` with rel(this, that), in the order the relation yields them
rel_searchNodeIterator(rel, this_node) ==
    SelectSeq([k \in 1..Len(tree.parent) |-> k],
              LAMBDA that : condition_func(rel, this_node, that))

----------------------------------------------------------------------------
(* Regular expressions.  A REGEX token is /body/flags; re.search is        *)
(* modelled for bodies made of literal characters.                         *)

Lower(c) == CASE c = "A" -> "a" [] c = "B" -> "b" [] OTHER -> c

\* the position of the last "/" of a REGEX token
LastSlash(regex) == Max({ k \in 1..Len(regex) : regex[k] = "/" })

\* flag: the characters after the last "/", last first
RegexFlags(regex) == [k \in 1..(Len(regex) - LastSlash(regex)) |-> regex[Len(regex) + 1 - k]]

\* regex[1:-1] once the flags are stripped
RegexBody(regex) == SubSeq(regex, 2, LastSlash(regex) - 1)

\* re.search("(?flags)" + body, value) is not None
re_search(body, flags, value) ==
    LET fold(c) == IF "i" \in flags THEN Lower(c) ELSE c
    IN  \E off \in 0..(Len(value) - Len(body)) :
            \A j \in 1..Len(body) : fold(body[j]) = fold(value[off + j])

----------------------------------------------------------------------------
(* tregex.py: node descriptions.  A NodeDescription is [op, value] with op *)
(* "ID", "REGEX" or "BLANK"; a NodeDescriptions is [descriptions,          *)
(* is_negated, use_basic_cat].                                             *)

match_id(node, id, is_negated, use_basic_cat) ==
    LET value == getattr(node, use_basic_cat)
    IN  IF value = None THEN is_negated ELSE (value = id) # is_negated

match_regex(node, regex, is_negated, use_basic_cat) ==
    LET value == getattr(node, use_basic_cat)
    IN  IF value = None THEN is_negated
        ELSE re_search(RegexBody(regex), Range(RegexFlags(regex)), value) # is_negated

match_blank(node, value, is_negated, use_basic_cat) == ~is_negated

\* desc.condition_func(node, desc.value, is_negated=..., use_basic_cat=...)
desc_condition_func(desc, node, is_negated, use_basic_cat) ==
    CASE desc.op = "ID"    -> match_id(node, desc.value, is_negated, use_basic_cat)
      [] desc.op = "REGEX" -> match_regex(node, desc.value, is_negated, use_basic_cat)
      [] desc.op = "BLANK" -> match_blank(node, desc.value, is_negated, use_basic_cat)

\* list(TregexMatcher.match_node_descriptions(descriptions, trees))
match_node_descriptions(descriptions) ==
    SelectSeq(preorder_iter(1),
              LAMBDA node :
                \E k \in 1..Len(descriptions.descriptions) :
                    desc_condition_func(descriptions.descriptions[k], node,
                                        descriptions.is_negated, descriptions.use_basic_cat))

----------------------------------------------------------------------------
(* tregex.py: the conditions.  An AndCondition is                           *)
(*   [type, rel, is_negated, is_optional, named_nodes |-> [name, nodes]];   *)
(* NotAndCondition and OptionalAndCondition are [type, conditions] with a   *)
(* list of conditions; OptionalOrConditions is [type, conditions] with a    *)
(* list of lists of conditions.                                             *)

\* a (match_count, backrefs_map) pair handed back by a matcher
Matched(count, map) == [match_count |-> count, backrefs_map |-> map, err |-> FALSE]

\* raise SystemExit(...)
SystemExit == [match_count |-> 0, backrefs_map |-> EmptyMap, err |-> TRUE]

\* a NotAndCondition that leaves its conditions as they are written
toggle_nothing(condition) == condition

\* AndCondition.toggle_negated / NotAndCondition.toggle_negated, when it does not raise
RECURSIVE toggle_negated(_)
toggle_negated(condition) ==
    IF condition.type = "AndCondition"
    THEN [condition EXCEPT !.is_negated = ~condition.is_negated]
    ELSE [condition EXCEPT !.conditions =
            [k \in 1..Len(condition.conditions) |-> toggle_negated(condition.conditions[k])]]

\* NotAndCondition.toggle_negated raises SystemExit on this list of conditions
RECURSIVE toggle_raises(_)
toggle_raises(conds) ==
    \E k \in 1..Len(conds) :
        CASE conds[k].type = "AndCondition"    -> FALSE
          [] conds[k].type = "NotAndCondition" -> toggle_raises(conds[k].conditions)
          [] OTHER                             -> TRUE

\* NotAndCondition(conditions=conds), when the constructor does not raise
NotAndCondition(conds) ==
    [type |-> "NotAndCondition",
     conditions |-> [k \in 1..Len(conds) |-> toggle_negated(conds[k])]]

\* list(condition.get_node_name())
RECURSIVE get_node_name(_)
get_node_name(condition) ==
    CASE condition.type = "AndCondition" -> << condition.named_nodes.name >>
      [] condition.type = "OptionalOrConditions" ->
            Flatten([a \in 1..Len(condition.conditions) |->
                Flatten([k \in 1..Len(condition.conditions[a]) |->
                    get_node_name(condition.conditions[a][k])])])
      [] OTHER ->
            Flatten([k \in 1..Len(condition.conditions) |->
                get_node_name(condition.conditions[k])])

----------------------------------------------------------------------------
(* tregex.py: TregexMatcher *)

\* the nodes of those.nodes that stand in the relation to this_node, in order
Hits(this_node, those, rel) ==
    SelectSeq(those.nodes, LAMBDA that_node : condition_func(rel, this_node, that_node))

_match_and_condition(this_node, this_name, those, rel) ==
    LET hits == Hits(this_node, those, rel)
        names == {this_name, those.name} \ {NoName}
    IN  Matched(Len(hits),
            [n \in names |->
                IF this_name = those.name
                THEN [k \in 1..(2 * Len(hits)) |->
                        IF k % 2 = 1 THEN this_node ELSE hits[k \div 2]]
                ELSE IF n = this_name THEN Repeat(this_node, Len(hits))
                ELSE hits])

\* a negated relation that holds at every node
_match_and_condition_always(this_node, those, rel) == Matched(1, EmptyMap)

_match_and_condition_not(this_node, those, rel) ==
    IF \E k \in 1..Len(those.nodes) : condition_func(rel, this_node, those.nodes[k])
    THEN Matched(0, EmptyMap)
    ELSE Matched(1, EmptyMap)

\* an optional relation that binds every candidate, in the relation or not
_match_and_condition_optional_all(this_node, those, rel) ==
    Matched(1, [n \in {those.name} \ {NoName} |-> those.nodes])

_match_and_condition_optional(this_node, those, rel) ==
    IF those.name = NoName
    THEN Matched(1, EmptyMap)
    ELSE Matched(1, [n \in {those.name} |-> Hits(this_node, those, rel)])

match_and_condition(this_node, this_name, and_condition) ==
    IF and_condition.is_negated /\ and_condition.is_optional
    THEN SystemExit
    ELSE IF ~and_condition.is_negated /\ ~and_condition.is_optional
    THEN _match_and_condition(this_node, this_name, and_condition.named_nodes,
                              and_condition.rel)
    ELSE IF and_condition.is_negated
    THEN _match_and_condition_not(this_node, and_condition.named_nodes, and_condition.rel)
    ELSE _match_and_condition_optional(this_node, and_condition.named_nodes,
                                       and_condition.rel)

RECURSIVE match_and_conditions_cur_node(_, _, _)
RECURSIVE match_not_and_condition(_, _, _)
RECURSIVE match_optional_and_condition(_, _, _)
RECURSIVE match_optional_or_conditions(_, _, _)
RECURSIVE NotLoop(_, _, _, _)
RECURSIVE OptionalOrLoop(_, _, _, _, _, _)
RECURSIVE CurNodeLoop(_, _, _, _, _, _, _)

\* the loop of match_not_and_condition from its k-th condition on
NotLoop(this_node, this_name, conds, k) ==
    IF k > Len(conds) THEN Matched(0, EmptyMap)
    ELSE LET condition == conds[k]
             After(r) ==
                IF r.err THEN SystemExit
                ELSE IF r.match_count > 0
                THEN Matched(1, IF this_name # NoName
                                THEN [n \in {this_name} |-> << this_node >>]
                                ELSE EmptyMap)
                ELSE NotLoop(this_node, this_name, conds, k + 1)
         IN  After(IF condition.type # "AndCondition"
                   THEN match_and_conditions_cur_node(this_node, this_name,
                                                      condition.conditions)
                   ELSE match_and_condition(this_node, this_name, condition))

match_not_and_condition(this_node, this_name, not_and_condition) ==
    NotLoop(this_node, this_name, not_and_condition.conditions, 1)

\* optional matchers that hand back what the group matched
AsMatched(this_node, this_name, r) == r

\* the last lines of both optional matchers: a count of 0 becomes 1
AtLeastOne(this_node, this_name, r) ==
    IF r.err THEN SystemExit
    ELSE IF r.match_count = 0
    THEN Matched(1, IF this_name # NoName
                    THEN DictUpdate(r.backrefs_map, [n \in {this_name} |-> << this_node >>])
                    ELSE r.backrefs_map)
    ELSE r

match_optional_and_condition(this_node, this_name, optional_and_condition) ==
    AtLeastOne(this_node, this_name,
        match_and_conditions_cur_node(this_node, this_name,
                                      optional_and_condition.conditions))

\* the loop of match_optional_or_conditions from its k-th alternative on
OptionalOrLoop(this_node, this_name, alts, k, match_count, map) ==
    IF k > Len(alts) THEN Matched(match_count, map)
    ELSE LET After(r) ==
                IF r.err THEN SystemExit
                ELSE OptionalOrLoop(this_node, this_name, alts, k + 1,
                                    match_count + r.match_count,
                                    DictExtend(map, r.backrefs_map))
         IN  After(match_and_conditions_cur_node(this_node, this_name, alts[k]))

match_optional_or_conditions(this_node, this_name, optional_or_conditions) ==
    AtLeastOne(this_node, this_name,
        OptionalOrLoop(this_node, this_name, optional_or_conditions.conditions,
                       1, 0, EmptyMap))

\* a matcher that adds the counts of a conjunction
AccumulateBySum(match_count, match_count_cur_cond) == match_count + match_count_cur_cond

\* match_count *= match_count_cur_cond
Accumulate(match_count, match_count_cur_cond) == match_count * match_count_cur_cond

\* a conjunction that keeps the first binding of a name and drops later ones
MergeKeepingFirst(map, map_cur_cond) == DictUpdate(map_cur_cond, map)

\* for name, node_list in backrefs_map_cur_cond.items(): backrefs_map[name] = node_list
MergeBackrefs(map, map_cur_cond) == DictUpdate(map, map_cur_cond)

\* the loop of match_and_conditions_cur_node from its k-th condition on
CurNodeLoop(this_node, this_name, conds, k, match_count, map, names) ==
    IF k > Len(conds) THEN Matched(match_count, map)
    ELSE LET c == conds[k]
             that_name == IF c.type = "AndCondition" THEN c.named_nodes.name ELSE NoName
             raises ==
                CASE c.type = "NotAndCondition" ->
                        \E n \in Range(get_node_name(c)) : n # NoName
                  [] c.type = "AndCondition" ->
                        that_name # NoName /\ (c.is_negated \/ that_name \in names)
                  [] c.type \in {"OptionalAndCondition", "OptionalOrConditions"} -> FALSE
                  [] OTHER -> TRUE
             After(r) ==
                IF r.err THEN SystemExit
                ELSE IF r.match_count = 0 THEN Matched(0, EmptyMap)
                ELSE CurNodeLoop(this_node, this_name, conds, k + 1,
                                 Accumulate(match_count, r.match_count),
                                 MergeBackrefs(map, r.backrefs_map),
                                 IF that_name # NoName THEN names \cup {that_name}
                                 ELSE names)
         IN  IF raises THEN SystemExit
             ELSE After(CASE c.type = "NotAndCondition" ->
                                match_not_and_condition(this_node, this_name, c)
                          [] c.type = "OptionalAndCondition" ->
                                match_optional_and_condition(this_node, this_name, c)
                          [] c.type = "AndCondition" ->
                                match_and_condition(this_node, this_name, c)
                          [] c.type = "OptionalOrConditions" ->
                                match_optional_or_conditions(this_node, this_name, c))

match_and_conditions_cur_node(this_node, this_name, and_conditions) ==
    CurNodeLoop(this_node, this_name, and_conditions, 1, 1, EmptyMap,
                IF this_name # NoName THEN {this_name} ELSE {})

\* a (res, backrefs_map) pair handed back by match_and_conditions / match_or_conditions
Found(nodes, map) == [res |-> nodes, backrefs_map |-> map, err |-> FALSE]

Aborted == [res |-> <<>>, backrefs_map |-> EmptyMap, err |-> TRUE]

\* the loop of match_and_conditions from the k-th node of named_nodes.nodes on
RECURSIVE AndConditionsLoop(_, _, _, _, _)
AndConditionsLoop(nn, and_conditions, k, nodes, map) ==
    IF k > Len(nn.nodes) THEN Found(nodes, map)
    ELSE LET After(r) ==
                IF r.err THEN Aborted
                ELSE AndConditionsLoop(nn, and_conditions, k + 1,
                                       nodes \o Repeat(nn.nodes[k], r.match_count),
                                       DictExtend(map, r.backrefs_map))
         IN  After(match_and_conditions_cur_node(nn.nodes[k], nn.name, and_conditions))

match_and_conditions(nn, and_conditions) ==
    AndConditionsLoop(nn, and_conditions, 1, <<>>, EmptyMap)

\* the loop of match_or_conditions from its k-th alternative on
RECURSIVE OrConditionsLoop(_, _, _, _, _)
OrConditionsLoop(nn, or_conditions, k, nodes, map) ==
    IF k > Len(or_conditions) THEN Found(nodes, map)
    ELSE LET After(r) ==
                IF r.err THEN Aborted
                ELSE OrConditionsLoop(nn, or_conditions, k + 1, nodes \o r.res,
                                      DictExtend(map, r.backrefs_map))
         IN  After(match_and_conditions(nn, or_conditions[k]))

match_or_conditions(nn, or_conditions) ==
    OrConditionsLoop(nn, or_conditions, 1, <<>>, EmptyMap)

----------------------------------------------------------------------------
(* tregex.py: the grammar rules of make_parser.  A pattern is written as    *)
(*   named_nodes  [nd, ref, name, conds]: a node description nd (or the     *)
(*                back-reference =ref), named =name, followed by conds;     *)
(*   conditions   [type |-> "rel", prefix, rel, those]  (prefix of ! and ?) *)
(*                [type |-> "not", conds]      !( ... )                     *)
(*                [type |-> "opt", conds]      ?( ... )                     *)
(*                [type |-> "notor", alts]     ![ ... || ... ]              *)
(*                [type |-> "optor", alts]     ?[ ... || ... ]              *)
(*                [type |-> "multi", those]    <... { ... ; ... }           *)
(* The rules run bottom-up and left to right, as the LALR parser reduces    *)
(* them; sbm is self.backrefs_map, which the rules read and write.          *)

\* relation_data after p_relation and the p_not_relation_data /
\* p_optional_relation_data of its prefix, innermost (last) first
RECURSIVE p_relation_data(_, _)
p_relation_data(prefix, rel) ==
    IF prefix = <<>>
    THEN [rel |-> rel, is_negated |-> FALSE, is_optional |-> FALSE]
    ELSE LET inner == p_relation_data(Tail(prefix), rel)
         IN  IF Head(prefix) = "!"
             THEN [inner EXCEPT !.is_negated = ~inner.is_negated]
             ELSE [inner EXCEPT !.is_optional = ~inner.is_optional]

\* AndCondition(relation_data=..., named_nodes=...)
AndCondition(relation_data, nn) ==
    [type |-> "AndCondition", rel |-> relation_data.rel,
     is_negated |-> relation_data.is_negated, is_optional |-> relation_data.is_optional,
     named_nodes |-> nn]

\* the OR_REL token "||" where a list of conditions is expected: iterating it
\* gives its two characters
OrRelToken == << [type |-> "str"], [type |-> "str"] >>

Parsed(v, sbm) == [val |-> v, sbm |-> sbm, err |-> FALSE]

ParseAborted(sbm) == [val |-> <<>>, sbm |-> sbm, err |-> TRUE]

\* MultiRelationData(rel_key, op, arg=i, is_negated=...)
MultiRelationData(i, is_negated) ==
    [rel |-> MultiRels[i], is_negated |-> is_negated, is_optional |-> FALSE]

\* a block `<... { ... }` that says nothing of further children
multi_relation_open(named_nodes_list) ==
    [i \in 1..Len(named_nodes_list) |->
        AndCondition(MultiRelationData(i, FALSE), named_nodes_list[i])]

\* p_multi_relation_named_nodes on the named_nodes_list of the block: the
\* i-th named_nodes under has_ith_child with arg i, then every node of the
\* trees under the negated has_ith_child with arg i + 1
p_multi_relation_named_nodes(named_nodes_list) ==
    [i \in 1..(Len(named_nodes_list) + 1) |->
        IF i <= Len(named_nodes_list)
        THEN AndCondition(MultiRelationData(i, FALSE), named_nodes_list[i])
        ELSE AndCondition(MultiRelationData(i, TRUE),
                          [name |-> NoName, nodes |-> preorder_iter(1)])]

\* get_nodes on a name that no rule has bound: the empty list
get_nodes_or_none(name, sbm) ==
    [nodes |-> IF name \in DOMAIN sbm THEN sbm[name] ELSE <<>>, err |-> FALSE]

\* TregexPattern.get_nodes(name) with self.backrefs_map = sbm: [nodes, err]
get_nodes(name, sbm) ==
    IF name \in DOMAIN sbm
    THEN [nodes |-> sbm[name], err |-> FALSE]
    ELSE [nodes |-> <<>>, err |-> TRUE]

RECURSIVE p_named_nodes(_, _)
RECURSIVE p_and_condition(_, _)
RECURSIVE p_and_conditions(_, _, _, _)
RECURSIVE p_or_conditions(_, _, _, _)
RECURSIVE p_list_named_nodes(_, _, _, _)

\* p_node_descriptions / p_equal_id, p_named_nodes_equal_id and
\* p_named_nodes_and_conditions on a named_nodes with its conditions
p_named_nodes(expr, sbm) ==
         LET Matching(cs, m) ==
                IF m.err THEN ParseAborted(cs.sbm)
                ELSE Parsed([name |-> expr.name, nodes |-> m.res],
                            DictUpdate(cs.sbm, m.backrefs_map))
             Reduce(nn, cs) ==
                IF cs.err THEN ParseAborted(cs.sbm)
                ELSE Matching(cs, match_and_conditions(nn, cs.val))
             Named(nodes, sbm1) ==
                IF expr.conds = <<>>
                THEN Parsed([name |-> expr.name, nodes |-> nodes], sbm1)
                ELSE Reduce([name |-> expr.name, nodes |-> nodes],
                            p_and_conditions(expr.conds, 1, <<>>, sbm1))
             Described(nodes) ==
                Named(nodes, IF expr.name # NoName
                             THEN DictUpdate(sbm, [n \in {expr.name} |-> nodes])
                             ELSE sbm)
             EqualId(g) ==
                IF g.err THEN ParseAborted(sbm) ELSE Described(g.nodes)
         IN  IF expr.ref # NoName
             THEN EqualId(get_nodes(expr.ref, sbm))
             ELSE Described(match_node_descriptions(expr.nd))

\* p_named_nodes_list_named_nodes inside a block: the named_nodes of the
\* written list, from the k-th on
p_list_named_nodes(ws, k, acc, sbm) ==
    IF k > Len(ws) THEN Parsed(acc, sbm)
    ELSE LET After(one) ==
                IF one.err THEN ParseAborted(one.sbm)
                ELSE p_list_named_nodes(ws, k + 1, Append(acc, one.val), one.sbm)
         IN  After(p_named_nodes(ws[k], sbm))

\* one written condition: the list of conditions it adds to and_conditions
p_and_condition(c, sbm) ==
    CASE c.type = "rel" ->
            LET Rel(those) ==
                    IF those.err THEN ParseAborted(those.sbm)
                    ELSE Parsed(<< AndCondition(p_relation_data(c.prefix, c.rel),
                                                those.val) >>,
                                those.sbm)
            IN  Rel(p_named_nodes(c.those, sbm))
      [] c.type = "not" ->
            LET NotGroup(cs) ==
                    IF cs.err \/ toggle_raises(cs.val) THEN ParseAborted(cs.sbm)
                    ELSE Parsed(<< NotAndCondition(cs.val) >>, cs.sbm)
            IN  NotGroup(p_and_conditions(c.conds, 1, <<>>, sbm))
      [] c.type = "opt" ->
            LET OptGroup(cs) ==
                    IF cs.err THEN ParseAborted(cs.sbm)
                    ELSE Parsed(<< [type |-> "OptionalAndCondition",
                                    conditions |-> cs.val] >>,
                                cs.sbm)
            IN  OptGroup(p_and_conditions(c.conds, 1, <<>>, sbm))
      [] c.type = "notor" ->
            LET NotOrGroup(os) ==
                    IF os.err \/ \E a \in 1..Len(os.val) : toggle_raises(os.val[a])
                    THEN ParseAborted(os.sbm)
                    ELSE Parsed([a \in 1..Len(os.val) |-> NotAndCondition(os.val[a])],
                                os.sbm)
            IN  NotOrGroup(p_or_conditions(c.alts, 1, <<>>, sbm))
      [] c.type = "multi" ->
            LET Block(l) ==
                    IF l.err THEN ParseAborted(l.sbm)
                    ELSE Parsed(p_multi_relation_named_nodes(l.val), l.sbm)
            IN  Block(p_list_named_nodes(c.those, 1, <<>>, sbm))
      [] c.type = "optor" ->
            LET OptOrGroup(os) ==
                    IF os.err THEN ParseAborted(os.sbm)
                    ELSE Parsed(<< [type |-> "OptionalOrConditions",
                                    conditions |-> os.val] >>,
                                os.sbm)
            IN  OptOrGroup(p_or_conditions(c.alts, 1, <<>>, sbm))

\* p_and_condition, p_and_conditions_and_condition, p_not_and_conditions and
\* p_and_conditions_not_and_conditions: the list from the k-th written condition on
p_and_conditions(cs, k, acc, sbm) ==
    IF k > Len(cs) THEN Parsed(acc, sbm)
    ELSE LET After(one) ==
                IF one.err THEN ParseAborted(one.sbm)
                ELSE p_and_conditions(cs, k + 1, acc \o one.val, one.sbm)
         IN  After(p_and_condition(cs[k], sbm))

\* p_and_conditions_or_and_conditions (the first two alternatives) and
\* p_and_conditions (every further one, which appends p[2])
p_or_conditions(alts, k, acc, sbm) ==
    IF k > Len(alts) THEN Parsed(acc, sbm)
    ELSE LET After(one) ==
                IF one.err THEN ParseAborted(one.sbm)
                ELSE p_or_conditions(alts, k + 1,
                                     Append(acc, IF k <= 2 THEN one.val ELSE OrRelToken),
                                     one.sbm)
         IN  After(p_and_conditions(alts[k], 1, <<>>, sbm))

----------------------------------------------------------------------------
(* condition.py: node descriptions.  A NodeDescription is [op, value] with *)
(* op "ID", "REGEX", "ANY" or "ROOT"; a NodeDescriptions is                *)
(* [descriptions, under_negation, use_basic_cat, condition, name, backref] *)
(* where condition is an And or NoCondition and backref says whether a     *)
(* BackRef is set.  A call hands back [val, err]: its value, or err when   *)
(* it raises.                                                              *)

Return(v) == [val |-> v, err |-> FALSE]

Raise == [val |-> FALSE, err |-> TRUE]

NoCondition == [type |-> "None"]

\* an ID description that is false on an absent attribute, negated or not
NODE_ID_absentFalse(node, id, under_negation, use_basic_cat) ==
    Return(getattr(node, use_basic_cat) # None
           /\ ((getattr(node, use_basic_cat) = id) # under_negation))

NODE_ID_satisfies(node, id, under_negation, use_basic_cat) ==
    LET value == getattr(node, use_basic_cat)
    IN  IF value = None THEN Return(under_negation)
        ELSE Return((value = id) # under_negation)

NODE_REGEX_satisfies(node, regex, under_negation, use_basic_cat) ==
    LET value == getattr(node, use_basic_cat)
        flag == RegexFlags(regex)
    IN  IF value = None THEN Return(under_negation)
        ELSE IF \E k \in 1..Len(flag) : flag[k] \notin {"x", "i"} THEN Raise
        ELSE Return(re_search(RegexBody(regex), Range(flag), value) # under_negation)

NODE_ANY_satisfies(node, value, under_negation, use_basic_cat) ==
    Return(~under_negation)

NODE_ROOT_satisfies(node, value, under_negation, use_basic_cat) ==
    Return((parent(node) = 0) # under_negation)

\* desc.op.satisfies(t, desc.value, under_negation=..., use_basic_cat=...)
op_satisfies(desc, t, under_negation, use_basic_cat) ==
    CASE desc.op = "ID"    -> NODE_ID_satisfies(t, desc.value, under_negation, use_basic_cat)
      [] desc.op = "REGEX" -> NODE_REGEX_satisfies(t, desc.value, under_negation, use_basic_cat)
      [] desc.op = "ANY"   -> NODE_ANY_satisfies(t, desc.value, under_negation, use_basic_cat)
      [] desc.op = "ROOT"  -> NODE_ROOT_satisfies(t, desc.value, under_negation, use_basic_cat)

\* any(desc.op.satisfies(t, ...) for desc in descriptions), from the k-th on
RECURSIVE AnyDescription(_, _, _)
AnyDescription(nd, t, k) ==
    IF k > Len(nd.descriptions) THEN Return(FALSE)
    ELSE LET r == op_satisfies(nd.descriptions[k], t, nd.under_negation, nd.use_basic_cat)
         IN  IF r.err THEN Raise
             ELSE IF r.val THEN Return(TRUE)
             ELSE AnyDescription(nd, t, k + 1)

_satisfies_ignore_condition(nd, t) == AnyDescription(nd, t, 1)

----------------------------------------------------------------------------
(* condition.py: the conditions                                             *)
(*   [type |-> "Condition", relation_data, node_descriptions]               *)
(*   [type |-> "And", conditions, names]   [type |-> "Or", conditions, names] *)
(*   [type |-> "Not", condition]           [type |-> "Opt", condition]       *)
(* A generator is [out, err]: the nodes it yields, and whether it raises    *)
(* after them.                                                              *)

Yield(nodes) == [out |-> nodes, err |-> FALSE]

\* the generator that yields `nodes` and then raises
YieldThenRaise(nodes) == [out |-> nodes, err |-> TRUE]

\* the generators gens[k], gens[k+1], ... run one after the other
RECURSIVE Chain(_, _)
Chain(gens, k) ==
    IF k > Len(gens) THEN Yield(<<>>)
    ELSE IF gens[k].err THEN YieldThenRaise(gens[k].out)
    ELSE LET rest == Chain(gens, k + 1)
         IN  [out |-> gens[k].out \o rest.out, err |-> rest.err]

RECURSIVE searchNodeIterator(_, _)
RECURSIVE NodeDescriptions_satisfies(_, _)

\* AbstractCondition.satisfies: next(self.searchNodeIterator(t)) does not stop
AbstractCondition_satisfies(cond, t) ==
    LET Next1(g) ==
            IF g.out # <<>> THEN Return(TRUE)
            ELSE IF g.err THEN Raise
            ELSE Return(FALSE)
    IN  Next1(searchNodeIterator(cond, t))

\* any(desc.op.satisfies(t, ...) and cond_satisfies(t) for desc in descriptions)
RECURSIVE AnyDescriptionAndCondition(_, _, _)
AnyDescriptionAndCondition(nd, t, k) ==
    IF k > Len(nd.descriptions) THEN Return(FALSE)
    ELSE LET AndCond(c) ==
                IF c.err THEN Raise
                ELSE IF c.val THEN Return(TRUE)
                ELSE AnyDescriptionAndCondition(nd, t, k + 1)
             Desc(r) ==
                IF r.err THEN Raise
                ELSE IF ~r.val THEN AnyDescriptionAndCondition(nd, t, k + 1)
                ELSE AndCond(AbstractCondition_satisfies(nd.condition, t))
         IN  Desc(op_satisfies(nd.descriptions[k], t, nd.under_negation, nd.use_basic_cat))

NodeDescriptions_satisfies(nd, t) ==
    IF nd.condition = NoCondition
    THEN AnyDescription(nd, t, 1)
    ELSE AnyDescriptionAndCondition(nd, t, 1)

\* the nodes among those[k..] that satisfy the node descriptions, until one raises
RECURSIVE FilterSatisfies(_, _, _)
FilterSatisfies(nd, those, k) ==
    IF k > Len(those) THEN Yield(<<>>)
    ELSE LET Keep(s, rest) ==
                IF s.err THEN YieldThenRaise(<<>>)
                ELSE [out |-> (IF s.val THEN << those[k] >> ELSE <<>>) \o rest.out,
                      err |-> rest.err]
         IN  Keep(NodeDescriptions_satisfies(nd, those[k]), FilterSatisfies(nd, those, k + 1))

\* relation_data.searchNodeIterator(t, node_descriptions): every `that` with
\* rel(t, that) that satisfies the node descriptions
RelationData_searchNodeIterator(relation_data, t, nd) ==
    FilterSatisfies(nd, rel_searchNodeIterator(relation_data.rel, t), 1)

Condition_searchNodeIterator(cond, t) ==
    LET ForEach(g) == [out |-> Repeat(t, Len(g.out)), err |-> g.err]
    IN  ForEach(RelationData_searchNodeIterator(cond.relation_data, t,
                                                cond.node_descriptions))

\* And.searchNodeIterator: candidates after the conditions from the k-th on
RECURSIVE AndCandidates(_, _, _)
AndCandidates(conds, k, candidates) ==
    IF k > Len(conds) THEN Yield(candidates)
    ELSE LET After(g) ==
                IF g.err THEN YieldThenRaise(<<>>)
                ELSE AndCandidates(conds, k + 1, g.out)
         IN  After(Chain([c \in 1..Len(candidates) |->
                            searchNodeIterator(conds[k], candidates[c])], 1))

And_searchNodeIterator(cond, t) == AndCandidates(cond.conditions, 1, << t >>)

\* an Or that searches its first condition only
Or_firstOnly(cond, t) == searchNodeIterator(cond.conditions[1], t)

Or_searchNodeIterator(cond, t) ==
    Chain([k \in 1..Len(cond.conditions) |-> searchNodeIterator(cond.conditions[k], t)], 1)

Not_searchNodeIterator(cond, t) ==
    LET Next1(g) ==
            IF g.out # <<>> THEN Yield(<<>>)
            ELSE IF g.err THEN YieldThenRaise(<<>>)
            ELSE Yield(<< t >>)
    IN  Next1(searchNodeIterator(cond.condition, t))

Opt_searchNodeIterator(cond, t) ==
    LET Next1(g) == IF g.out = <<>> /\ ~g.err THEN Yield(<< t >>) ELSE g
    IN  Next1(searchNodeIterator(cond.condition, t))

searchNodeIterator(cond, t) ==
    CASE cond.type = "Condition" -> Condition_searchNodeIterator(cond, t)
      [] cond.type = "And"       -> And_searchNodeIterator(cond, t)
      [] cond.type = "Or"        -> Or_searchNodeIterator(cond, t)
      [] cond.type = "Not"       -> Not_searchNodeIterator(cond, t)
      [] cond.type = "Opt"       -> Opt_searchNodeIterator(cond, t)

\* filter(self._satisfies_ignore_condition, node_gen), from the k-th node on
RECURSIVE FilterIgnoreCondition(_, _, _)
FilterIgnoreCondition(nd, node_gen, k) ==
    IF k > Len(node_gen) THEN Yield(<<>>)
    ELSE LET Keep(s, rest) ==
                IF s.err THEN YieldThenRaise(<<>>)
                ELSE [out |-> (IF s.val THEN << node_gen[k] >> ELSE <<>>) \o rest.out,
                      err |-> rest.err]
         IN  Keep(_satisfies_ignore_condition(nd, node_gen[k]),
                  FilterIgnoreCondition(nd, node_gen, k + 1))

\* NodeDescriptions.searchNodeIterator(t, recursive=...) before its backref is
\* looked at: the generator ret
NodeDescriptions_ret(nd, t, recursive) ==
    LET Searched(node_gen, g) ==
            IF g.err THEN g
            ELSE [out |-> g.out, err |-> node_gen.err]
        Filtered(node_gen) ==
            IF nd.condition = NoCondition THEN node_gen
            ELSE IF nd.name # NoName /\ nd.name \in nd.condition.names
            THEN YieldThenRaise(<<>>)
            ELSE Searched(node_gen,
                          Chain([k \in 1..Len(node_gen.out) |->
                                    searchNodeIterator(nd.condition, node_gen.out[k])], 1))
    IN  Filtered(FilterIgnoreCondition(nd, IF recursive THEN preorder_iter(t) ELSE << t >>, 1))

\* BackRef.nodes: None, or a list of nodes
NoNodeList == [is_list |-> FALSE, list |-> <<>>]

NodeList(nodes) == [is_list |-> TRUE, list |-> nodes]

\* NodeDescriptions.searchNodeIterator(t, recursive=...) with backref.nodes = held
\* before the call: what it yields, and backref.nodes after it
NodeDescriptions_searchNodeIterator(nd, t, recursive, held) ==
    LET Tee(ret) ==
            IF ~nd.backref THEN [out |-> ret.out, err |-> ret.err, nodes |-> held]
            ELSE IF ret.err THEN [out |-> <<>>, err |-> TRUE, nodes |-> held]
            ELSE [out |-> ret.out, err |-> FALSE,
                  nodes |-> IF held.is_list THEN NodeList(held.list \o ret.out)
                            ELSE NodeList(ret.out)]
    IN  Tee(NodeDescriptions_ret(nd, t, recursive))

----------------------------------------------------------------------------
(* condition.py: building conditions.  check_name and store_name work on   *)
(* the set self.names; a constructor hands back [val, err].                *)

\* And.check_name(cond) on self.names = names: [names, err]
RECURSIVE check_name(_, _)
check_name(names, cond) ==
    CASE cond.type \in {"Not", "Opt"} -> check_name(names, cond.condition)
      [] cond.type = "Condition" ->
            LET name == cond.node_descriptions.name
            IN  IF name = NoName THEN [names |-> names, err |-> FALSE]
                ELSE IF name \in names THEN [names |-> names, err |-> TRUE]
                ELSE [names |-> names \cup {name}, err |-> FALSE]
      [] cond.type \in {"And", "Or"} ->
            IF cond.names \cap names # {} THEN [names |-> names, err |-> TRUE]
            ELSE [names |-> names \cup cond.names, err |-> FALSE]

\* for cond in conds: self.check_name(cond), from the k-th on
RECURSIVE check_names(_, _, _)
check_names(names, conds, k) ==
    IF k > Len(conds) THEN [names |-> names, err |-> FALSE]
    ELSE LET r == check_name(names, conds[k])
         IN  IF r.err THEN r ELSE check_names(r.names, conds, k + 1)

\* And(*conds)
And(conds) ==
    LET r == check_names({}, conds, 1)
    IN  [val |-> [type |-> "And", conditions |-> conds, names |-> r.names], err |-> r.err]

\* Or.store_name(cond) on self.names = names: the names after it
RECURSIVE store_name(_, _)
store_name(names, cond) ==
    CASE cond.type \in {"Not", "Opt"} -> store_name(names, cond.condition)
      [] cond.type = "Condition" ->
            IF cond.node_descriptions.name = NoName THEN names
            ELSE names \cup {cond.node_descriptions.name}
      [] cond.type \in {"And", "Or"} -> names \cup cond.names

RECURSIVE store_names(_, _, _)
store_names(names, conds, k) ==
    IF k > Len(conds) THEN names
    ELSE store_names(store_name(names, conds[k]), conds, k + 1)

\* Or(*conds)
Or(conds) == [type |-> "Or", conditions |-> conds, names |-> store_names({}, conds, 1)]

\* Not(condition)
Not(condition) == [type |-> "Not", condition |-> condition]

\* Opt(condition)
Opt(condition) == [type |-> "Opt", condition |-> condition]

\* Condition(relation_data, node_descriptions)
Condition(rel, nd) ==
    [type |-> "Condition", relation_data |-> [rel |-> rel], node_descriptions |-> nd]

\* NodeDescriptions(*descriptions, under_negation=..., use_basic_cat=...)
NodeDescriptions(descs, under_negation, use_basic_cat) ==
    [descriptions |-> descs, under_negation |-> under_negation,
     use_basic_cat |-> use_basic_cat, condition |-> NoCondition,
     name |-> NoName, backref |-> FALSE]

\* nd.set_backref(backref, name)
set_backref(nd, name) == [nd EXCEPT !.backref = TRUE, !.name = name]

\* self.append_condition(other_condition) on the And `this`
append_condition(this, other_condition) ==
    LET r == check_name(this.names, other_condition)
    IN  IF r.err THEN [val |-> this, err |-> TRUE]
        ELSE [val |-> [this EXCEPT !.conditions = Append(@, other_condition),
                                   !.names = r.names],
              err |-> FALSE]

\* self.extend_conditions(other_conditions) on the And `this`: the names that
\* check_name has added stay in self.names when a later check_name raises
extend_conditions(this, other_conditions) ==
    LET After(r) ==
            IF r.err THEN [val |-> [this EXCEPT !.names = r.names], err |-> TRUE]
            ELSE [val |-> [this EXCEPT !.conditions = @ \o other_conditions,
                                       !.names = r.names],
                  err |-> FALSE]
    IN  After(check_names(this.names, other_conditions, 1))

\* self.append_condition(other_condition) on the Or `this`
Or_append_condition(this, other_condition) ==
    [val |-> [this EXCEPT !.conditions = Append(@, other_condition),
                          !.names = store_name(@, other_condition)],
     err |-> FALSE]

\* nd.set_condition(condition)
set_condition(nd, condition) ==
    LET a == IF nd.condition = NoCondition THEN And(<< condition >>)
             ELSE append_condition(nd.condition, condition)
    IN  [val |-> [nd EXCEPT !.condition = a.val], err |-> a.err]

\* nd.set_condition(c) for every c of conds, from the k-th on
RECURSIVE set_conditions(_, _, _)
set_conditions(nd, conds, k) ==
    IF k > Len(conds) THEN [val |-> nd, err |-> FALSE]
    ELSE LET r == set_condition(nd, conds[k])
         IN  IF r.err THEN r ELSE set_conditions(r.val, conds, k + 1)

----------------------------------------------------------------------------
(* The patterns of the model: tregex.py *)

T_ID(s) == [op |-> "ID", value |-> s]

T_REGEX(s) == [op |-> "REGEX", value |-> s]

T_BLANK == [op |-> "BLANK", value |-> <<"_", "_">>]

\* NodeDescriptions(descriptions, is_negated=..., use_basic_cat=...)
T_NodeDescriptions(descs, is_negated, use_basic_cat) ==
    [descriptions |-> descs, is_negated |-> is_negated, use_basic_cat |-> use_basic_cat]

T_Plain(desc) == T_NodeDescriptions(<< desc >>, FALSE, FALSE)

\* a written named_nodes
Written(nd, name, conds) == [nd |-> nd, ref |-> NoName, name |-> name, conds |-> conds]

\* written conditions
W_Rel(prefix, rel, those) == [type |-> "rel", prefix |-> prefix, rel |-> rel, those |-> those]

W_Not(conds) == [type |-> "not", conds |-> conds]

W_Opt(conds) == [type |-> "opt", conds |-> conds]

W_NotOr(alts) == [type |-> "notor", alts |-> alts]

W_OptOr(alts) == [type |-> "optor", alts |-> alts]

\* <... { those[1] ; those[2] ; ... }
W_Multi(those) == [type |-> "multi", those |-> those]

\* a written pattern: an anchor followed by a conjunction (conds) or by a
\* disjunction (alts)
Pattern(nd, name, conds, alts) ==
    [nd |-> nd, ref |-> NoName, name |-> name, conds |-> conds, alts |-> alts]

\* the lists of one or two elements of S
Lists(S) == { << a >> : a \in S } \cup { << a, b >> : a \in S, b \in S }

T_B == Written(T_Plain(T_ID(<<"B">>)), NoName, <<>>)

T_A == Written(T_Plain(T_ID(<<"A">>)), NoName, <<>>)

T_Any == Written(T_Plain(T_BLANK), NoName, <<>>)

T_Bn == Written(T_Plain(T_ID(<<"B">>)), "n", <<>>)

\* B and __ with one condition of their own: ( B < __ ), ( __ > B ), ...
T_Nested ==
    { Written(T_Plain(T_BLANK), NoName, << W_Rel(<<>>, r, T_Any) >>) : r \in {"<", ">"} }
    \cup { Written(T_Plain(T_ID(<<"B">>)), NoName, << W_Rel(<<>>, ">", T_Any) >>) }

\* ( __=n < __ )
T_NestedNamed == Written(T_Plain(T_BLANK), "n", << W_Rel(<<>>, "<", T_Any) >>)

T_Prefixes == { <<>>, <<"!">>, <<"?">> }

T_Relations ==
    { W_Rel(p, r, t) : p \in T_Prefixes, r \in Rels, t \in {T_B, T_Any} }
    \cup { W_Rel(p, r, t) : p \in T_Prefixes, r \in {"<", ">"}, t \in T_Nested }
    \cup { W_Rel(p, "<", T_Bn) : p \in T_Prefixes }
    \cup { W_Rel(<<"?">>, ">", T_NestedNamed) }

T_Core ==
    { W_Rel(<<>>, "<", T_B), W_Rel(<<"!">>, "<", T_B), W_Rel(<<>>, ">", T_Any),
      W_Rel(<<>>, "<<", T_Any), W_Rel(<<"?">>, "<", T_Bn) }

T_Core3 == { W_Rel(<<>>, "<", T_B), W_Rel(<<>>, ">", T_Any), W_Rel(<<"!">>, "<<", T_B) }

T_Grouped ==
    Lists(T_Core3) \cup { << c >> : c \in T_Core } \cup { << W_Rel(<<"?">>, "<", T_B) >> }

T_Groups ==
    { W_Not(l) : l \in T_Grouped }
    \cup { W_Opt(l) : l \in T_Grouped }
    \cup { W_OptOr(<< <<a>>, <<b>> >>) : a \in T_Core3, b \in T_Core3 }
    \cup { W_NotOr(<< <<a>>, <<b>> >>) : a \in T_Core3, b \in T_Core3 }
    \cup { W_Not(<< W_Not(l) >>) : l \in Lists(T_Core3) }
    \cup { W_Not(<< a, W_Not(<< b >>) >>) : a \in T_Core3, b \in T_Core3 }
    \cup { W_Not(<< W_Not(<< W_Not(<< a >>) >>) >>) : a \in T_Core3 }

T_Pairs == T_Core \cup { W_Not(<< W_Rel(<<>>, "<", T_B) >>), W_Opt(<< W_Rel(<<>>, "<", T_B) >>) }

T_Conjunctions ==
    { << c >> : c \in T_Relations \cup T_Groups } \cup { << a, b >> : a \in T_Pairs, b \in T_Pairs }

T_Disjunctions ==
    { << <<a>>, <<b>> >> : a \in T_Core, b \in T_Core }
    \cup { << <<a, b>>, <<c>> >> : a \in T_Core3, b \in T_Core3, c \in T_Core3 }

\* relations to a node named n
T_NamedRelations ==
    { W_Rel(<<>>, "<", T_Bn), W_Rel(<<>>, ">", T_Bn), W_Rel(<<"?">>, "<", T_Bn) }

\* patterns that give the name n twice in one conjunction: to two described
\* nodes, or to the anchor and a described node
T_NamedTwice ==
    { Pattern(T_Plain(d), NoName, << a, b >>, <<>>) :
        d \in {T_BLANK, T_ID(<<"B">>)}, a \in T_NamedRelations, b \in T_NamedRelations }
    \cup { Pattern(T_Plain(d), "n", << a >>, <<>>) :
                d \in {T_BLANK, T_ID(<<"B">>)}, a \in T_NamedRelations }
    \cup { Pattern(T_Plain(T_BLANK), "n", << W_Rel(<<>>, "<", T_B), a >>, <<>>) :
                a \in T_NamedRelations }

\* patterns that name a node inside a negated group
T_NamedInNegation ==
    { Pattern(T_Plain(d), NoName, << g >>, <<>>) :
        d \in {T_BLANK, T_ID(<<"B">>)},
        g \in { W_Not(<< W_Rel(<<>>, "<", T_Bn) >>),
                W_Not(<< W_Rel(<<>>, ">", T_Any), W_Rel(<<>>, "<", T_Bn) >>),
                W_NotOr(<< << W_Rel(<<>>, "<", T_Bn) >>, << W_Rel(<<>>, ">", T_B) >> >>) } }

\* patterns whose relation has two prefixes: `!? < B`, `?! < B`, `!! < B`, ...
T_PrefixedTwice ==
    { Pattern(T_Plain(d), NoName, << W_Rel(<< p, q >>, "<", T_B) >>, <<>>) :
        d \in {T_BLANK, T_ID(<<"B">>)}, p \in {"!", "?"}, q \in {"!", "?"} }

\* `=name`: a back-reference, which has no description of its own
T_EqualId(name) == [Written(T_Plain(T_BLANK), NoName, <<>>) EXCEPT !.ref = name]

\* `(B=n > A)`: the nodes labelled B under a node labelled A, bound to n
T_BnUnderA ==
    Written(T_Plain(T_ID(<<"B">>)), "n",
            << W_Rel(<<>>, ">", T_A) >>)

\* patterns with a back-reference =n before n is bound (`__ < =n < B=n`) and
\* without n ever bound (`__ < =n`, `B !> =n`, ...)
T_UndeclaredReferences ==
    { Pattern(T_Plain(T_BLANK), NoName,
              << W_Rel(<<>>, "<", T_EqualId("n")), W_Rel(<<>>, "<", T_Bn) >>, <<>>) }
    \cup { Pattern(T_Plain(d), NoName, << W_Rel(p, r, T_EqualId("n")) >>, <<>>) :
                d \in {T_BLANK, T_ID(<<"B">>)}, p \in {<<>>, <<"!">>}, r \in {"<", ">"} }

\* patterns with a back-reference =n: after n was bound (`__ < (B=n > A) < =n`,
\* `__ < B=n < =n`, `B=n < (__ < =n)`), and before or without it
T_BackReferences ==
    { Pattern(T_Plain(T_BLANK), NoName, << W_Rel(<<>>, r, b), W_Rel(<<>>, r, T_EqualId("n")) >>,
              <<>>) : r \in {"<", "<<"}, b \in {T_BnUnderA, T_Bn} }
    \cup { Pattern(T_Plain(T_ID(<<"B">>)), "n",
                   << W_Rel(<<>>, "<", Written(T_Plain(T_BLANK), NoName,
                                               << W_Rel(<<>>, r, T_EqualId("n")) >>)) >>,
                   <<>>) : r \in {"<", ">"} }
    \cup T_UndeclaredReferences

\* patterns with a block: `__ <... { A }`, `B <... { A ; __ }`, ... and
\* `__ > __ <... { B }`
T_MultiRelations ==
    { Pattern(T_Plain(d), NoName, << W_Multi(l) >>, <<>>) :
        d \in {T_BLANK, T_ID(<<"B">>)}, l \in Lists({T_A, T_B, T_Any}) }
    \cup { Pattern(T_Plain(T_BLANK), NoName,
                   << W_Rel(<<>>, ">", T_Any), W_Multi(<< T_B >>) >>, <<>>) }

\* patterns whose two alternatives bind the same name: `__ [ < B=n || > A=n ]`,
\* `__ ?[ < B=n || < A=n ]`, ...
T_NamedAlternatives ==
    LET Alts(r1, l1, r2, l2) ==
            << << W_Rel(<<>>, r1, Written(T_Plain(T_ID(l1)), "n", <<>>)) >>,
               << W_Rel(<<>>, r2, Written(T_Plain(T_ID(l2)), "n", <<>>)) >> >>
        All == { Alts(r1, l1, r2, l2) :
                    r1 \in {"<", ">"}, l1 \in PlainLabels, r2 \in {"<", ">"}, l2 \in PlainLabels }
    IN  { Pattern(T_Plain(T_BLANK), NoName, <<>>, o) : o \in All }
        \cup { Pattern(T_Plain(T_BLANK), NoName, << W_OptOr(o) >>, <<>>) : o \in All }

\* patterns of three alternatives: `__ [ < B || > __ || !<< B ]`, ...
T_ThreeAlternatives ==
    { Pattern(T_Plain(d), NoName, <<>>, << <<a>>, <<b>>, <<c>> >>) :
        d \in {T_BLANK, T_ID(<<"B">>)}, a \in T_Core3, b \in T_Core3, c \in T_Core3 }

\* patterns that declare the name n inside a parenthesised sub-pattern, at
\* its root or below it: `__ < ( B=n > A )`, `__ << ( B > A=n )`, ...
T_NamedInside ==
    { Pattern(T_Plain(T_BLANK), NoName,
              << W_Rel(<<>>, r,
                       Written(T_Plain(T_ID(<<"B">>)), names[1],
                               << W_Rel(<<>>, ">",
                                        Written(T_Plain(T_ID(<<"A">>)), names[2], <<>>)) >>)) >>,
              <<>>) :
        r \in {"<", "<<"}, names \in { << "n", NoName >>, << NoName, "n" >> } }

\* patterns with conditions, matched on trees over PlainLabels
TregexPatterns ==
    T_NamedInside \cup T_ThreeAlternatives \cup T_NamedAlternatives \cup T_MultiRelations \cup T_NamedTwice \cup T_NamedInNegation \cup T_PrefixedTwice \cup T_BackReferences \cup
    { Pattern(T_Plain(T_BLANK), NoName, l, <<>>) : l \in T_Conjunctions }
    \cup { Pattern(T_Plain(T_ID(<<"B">>)), NoName, << c >>, <<>>) : c \in T_Relations }
    \cup { Pattern(T_Plain(T_BLANK), "a", l, <<>>) : l \in Lists(T_Core) }
    \cup { Pattern(T_Plain(T_BLANK), NoName, <<>>, o) : o \in T_Disjunctions }
    \cup { Pattern(T_Plain(T_BLANK), "a", <<>>, << <<a>>, <<b>> >>) :
                a \in T_Core3, b \in T_Core3 }

T_Descriptions ==
    { T_ID(<<"A">>), T_ID(<<"a">>), T_BLANK,
      T_REGEX(<<"/", "A", "/">>), T_REGEX(<<"/", "b", "/", "i">>),
      T_REGEX(<<"/", "/", "x", "i">>) }

\* patterns that are one node description, matched on trees over RichLabels
TregexDescriptionPatterns ==
    { Pattern(T_NodeDescriptions(ds, neg, cat), NoName, <<>>, <<>>) :
        ds \in Lists(T_Descriptions), neg \in BOOLEAN, cat \in BOOLEAN }

----------------------------------------------------------------------------
(* The patterns of the model: condition.py *)

C_ID(s) == [op |-> "ID", value |-> s]

C_REGEX(s) == [op |-> "REGEX", value |-> s]

C_ANY == [op |-> "ANY", value |-> <<"_", "_">>]

C_ROOT == [op |-> "ROOT", value |-> <<>>]

C_B == NodeDescriptions(<< C_ID(<<"B">>) >>, FALSE, FALSE)

C_Any == NodeDescriptions(<< C_ANY >>, FALSE, FALSE)

C_Bn == [C_B EXCEPT !.name = "n"]

\* ( B < __ ), ( __ > B ), ...
C_Nested ==
    { set_condition(nd, Condition(r, C_Any)).val : nd \in {C_B, C_Any}, r \in {"<", ">"} }

C_Relations ==
    { Condition(r, t) : r \in Rels, t \in {C_B, C_Any} }
    \cup { Condition(r, t) : r \in {"<", ">"}, t \in C_Nested }
    \cup { Condition("<", C_Bn) }

C_Core == { Condition("<", C_B), Condition(">", C_Any), Condition("<<", C_Any),
            Condition("<", C_Bn) }

\* the And of every list of one or two conditions of S whose names do not clash
Ands(S) == { And(l).val : l \in { m \in Lists(S) : ~And(m).err } }

Ors(S) == { Or(l) : l \in Lists(S) }

C_Groups ==
    Ors(C_Core) \cup Ands(C_Core)
    \cup { Not(c) : c \in C_Relations \cup Ors(C_Core) \cup Ands(C_Core) }
    \cup { Opt(c) : c \in C_Relations \cup Ors(C_Core) \cup Ands(C_Core) }
    \cup { Not(Not(c)) : c \in C_Core \cup Ors(C_Core) }

C_Pairs == C_Core \cup { Not(Condition("<", C_B)), Opt(Condition("<", C_B)),
                         Or(<< Condition("<", C_B), Condition(">", C_Any) >>),
                         Condition("<", CHOOSE t \in C_Nested : TRUE) }

C_Conjunctions ==
    { << c >> : c \in C_Relations \cup C_Groups } \cup { << a, b >> : a \in C_Pairs, b \in C_Pairs }

\* `B=n < (__ < =n)`: the description of B is wired to a BackRef named n, and
\* the second occurrence of n is a NodeDescriptions wired to the same BackRef,
\* with the descriptions that BackRef holds
C_BackReference ==
    << set_backref(C_B, "n"),
       << Condition("<", set_condition(C_Any, Condition("<", set_backref(C_B, "n"))).val) >> >>

\* lists of three conditions, of which the last two may name a node n
C_Triples ==
    { << Condition("<", C_B), b, c >> :
        b \in { Condition("<", C_Bn), Condition(">", C_Any) },
        c \in { Condition("<", C_Bn), Condition(">", C_Any),
                Or(<< Condition("<", C_Bn), Condition(">", C_Any) >>) } }

\* patterns with conditions, matched on trees over PlainLabels: an anchor and
\* the conditions that set_condition is called with on it, one after the other
ConditionPatterns ==
    { C_BackReference } \cup { << C_Any, l >> : l \in C_Triples } \cup
    { << a, l >> : a \in {C_Any, C_B}, l \in C_Conjunctions }
    \cup { << set_backref(C_Any, x), l >> : x \in {"a", "n"}, l \in Lists(C_Core) }

C_Descriptions ==
    { C_ID(<<"A">>), C_ID(<<"a">>), C_ANY, C_ROOT,
      C_REGEX(<<"/", "A", "/">>), C_REGEX(<<"/", "b", "/", "i">>),
      C_REGEX(<<"/", "/", "x", "i">>), C_REGEX(<<"/", "A", "/", "m">>) }

\* patterns that are one node description, matched on trees over RichLabels
ConditionDescriptionPatterns ==
    { NodeDescriptions(ds, neg, cat) :
        ds \in Lists(C_Descriptions), neg \in BOOLEAN, cat \in BOOLEAN }

----------------------------------------------------------------------------
(* The documented example `foo=a <bar=a << baz=a` on (foo bar (rab (baz bar))) *)

\* its labels
ExampleLabels ==
    [foo |-> <<"f", "o", "o">>, bar |-> <<"b", "a", "r">>,
     rab |-> <<"r", "a", "b">>, baz |-> <<"b", "a", "z">>]

\* (foo bar (rab (baz bar)))
ReusedNameTree ==
    [parent |-> <<0, 1, 1, 3, 4>>,
     label |-> << ExampleLabels.foo, ExampleLabels.bar, ExampleLabels.rab,
                  ExampleLabels.baz, ExampleLabels.bar >>]

\* tregex.py: foo=a <bar=a << baz=a
T_ReusedName ==
    Pattern(T_Plain(T_ID(ExampleLabels.foo)), "a",
            << W_Rel(<<>>, "<", Written(T_Plain(T_ID(ExampleLabels.bar)), "a", <<>>)),
               W_Rel(<<>>, "<<", Written(T_Plain(T_ID(ExampleLabels.baz)), "a", <<>>)) >>,
            <<>>)

\* condition.py: the anchor foo=a and the conditions <bar=a and << baz=a
C_ReusedName ==
    LET Named(l) == set_backref(NodeDescriptions(<< C_ID(l) >>, FALSE, FALSE), "a")
    IN  << Named(ExampleLabels.foo),
           << Condition("<", Named(ExampleLabels.bar)),
              Condition("<<", Named(ExampleLabels.baz)) >> >>

\* (A (B 1) (C 2) (B 3))
SharedNameTree ==
    [parent |-> <<0, 1, 2, 1, 4, 1, 6>>,
     label |-> << <<"A">>, <<"B">>, <<"1">>, <<"C">>, <<"2">>, <<"B">>, <<"3">> >>]

\* tregex.py: A ?[< B=foo || < C=foo]
T_SharedName ==
    Pattern(T_Plain(T_ID(<<"A">>)), NoName,
            << W_OptOr(<< << W_Rel(<<>>, "<", Written(T_Plain(T_ID(<<"B">>)), "foo", <<>>)) >>,
                          << W_Rel(<<>>, "<", Written(T_Plain(T_ID(<<"C">>)), "foo", <<>>)) >>
                       >>) >>,
            <<>>)

\* (foo )
NoSisterTree == [parent |-> <<0>>, label |-> << ExampleLabels.foo >>]

\* tregex.py: foo=a $ bar=a
T_NoSister ==
    Pattern(T_Plain(T_ID(ExampleLabels.foo)), "a",
            << W_Rel(<<>>, "$", Written(T_Plain(T_ID(ExampleLabels.bar)), "a", <<>>)) >>, <<>>)

\* tregex.py: the documented examples, each a tree with a pattern
TregexExamples ==
    { << ReusedNameTree, T_ReusedName >>, << SharedNameTree, T_SharedName >>,
      << NoSisterTree, T_NoSister >> }

----------------------------------------------------------------------------
(* The runs: one findall of tregex.py, or one searchNodeIterator of the    *)
(* anchor of condition.py from the root of the tree.                       *)

\* the pattern object as its constructor leaves it, before the first call
Constructed ==
    /\ text = <<>>
    /\ pc = "start"
    /\ named_nodes = [name |-> NoName, nodes |-> <<>>]
    /\ alt = 0
    /\ idx = 0
    /\ cur = Matched(0, EmptyMap)
    /\ res = <<>>
    /\ backrefs_map = EmptyMap
    /\ self_backrefs_map = EmptyMap
    /\ result = <<>>
    /\ backref_nodes = NoNodeList
    /\ returned = <<>>

Init ==
    /\ \/ /\ engine = "tregex"
          /\ \/ tree \in TreesOver(PlainLabels, MaxNodes) /\ pat \in TregexPatterns
             \/ /\ tree \in TreesOver(RichLabels, MaxLabelledNodes)
                /\ pat \in TregexDescriptionPatterns
             \/ \E e \in TregexExamples : tree = e[1] /\ pat = e[2]
          /\ conditions = <<>>
       \/ /\ engine = "condition"
          /\ \/ /\ tree \in TreesOver(PlainLabels, MaxNodes)
                /\ \E p \in ConditionPatterns : pat = p[1] /\ conditions = p[2]
             \/ /\ tree \in TreesOver(RichLabels, MaxLabelledNodes)
                /\ pat \in ConditionDescriptionPatterns
                /\ conditions = <<>>
             \/ /\ tree = ReusedNameTree
                /\ pat = C_ReusedName[1] /\ conditions = C_ReusedName[2]
    /\ Constructed

\* p_node_descriptions on the anchor
AnchorNodeDescriptions ==
    /\ engine = "tregex" /\ pc = "start"
    /\ named_nodes' = [name |-> NoName, nodes |-> match_node_descriptions(pat.nd)]
    /\ pc' = "named_nodes"
    /\ UNCHANGED <<text, tree, engine, pat, conditions, alt, idx, cur, res, backrefs_map,
                   self_backrefs_map, result, backref_nodes,
                   returned>>

\* p_named_nodes_equal_id on the anchor
AnchorEqualId ==
    /\ engine = "tregex" /\ pc = "named_nodes"
    /\ pat.name # NoName /\ named_nodes.name = NoName
    /\ named_nodes' = [named_nodes EXCEPT !.name = pat.name]
    /\ self_backrefs_map' =
            DictUpdate(self_backrefs_map, [n \in {pat.name} |-> named_nodes.nodes])
    /\ UNCHANGED <<text, tree, engine, pat, pc, conditions, alt, idx, cur, res, backrefs_map,
                   result, backref_nodes,
                   returned>>

\* the rules that build the and_conditions after the anchor
ParseAndConditions ==
    /\ engine = "tregex" /\ pc = "named_nodes"
    /\ named_nodes.name = pat.name /\ pat.conds # <<>>
    /\ \E cs \in { p_and_conditions(pat.conds, 1, <<>>, self_backrefs_map) } :
           /\ pc' = IF cs.err THEN "error" ELSE "and_conditions"
           /\ conditions' = cs.val
           /\ self_backrefs_map' = cs.sbm
    /\ UNCHANGED <<text, tree, engine, pat, named_nodes, alt, idx, cur, res, backrefs_map,
                   result, backref_nodes,
                   returned>>

\* the rules that build the or_conditions after the anchor
ParseOrConditions ==
    /\ engine = "tregex" /\ pc = "named_nodes"
    /\ named_nodes.name = pat.name /\ pat.alts # <<>>
    /\ \E os \in { p_or_conditions(pat.alts, 1, <<>>, self_backrefs_map) } :
           /\ pc' = IF os.err THEN "error" ELSE "or_conditions"
           /\ conditions' = os.val
           /\ self_backrefs_map' = os.sbm
    /\ UNCHANGED <<text, tree, engine, pat, named_nodes, alt, idx, cur, res, backrefs_map,
                   result, backref_nodes,
                   returned>>

\* match_and_conditions: one turn of its loop over named_nodes.nodes
MatchAndConditionsStep ==
    /\ engine = "tregex" /\ pc = "and_conditions"
    /\ idx < Len(named_nodes.nodes)
    /\ \E this_node \in { named_nodes.nodes[idx + 1] } :
       \E r \in { match_and_conditions_cur_node(this_node, named_nodes.name, conditions) } :
           /\ cur' = r
           /\ idx' = idx + 1
           /\ pc' = IF r.err THEN "error" ELSE pc
           /\ res' = res \o Repeat(this_node, r.match_count)
           /\ backrefs_map' = DictExtend(backrefs_map, r.backrefs_map)
    /\ UNCHANGED <<text, tree, engine, pat, named_nodes, conditions, alt, self_backrefs_map,
                   result, backref_nodes,
                   returned>>

\* p_named_nodes_and_conditions, once match_and_conditions has returned
NamedNodesAndConditions ==
    /\ engine = "tregex" /\ pc = "and_conditions"
    /\ idx = Len(named_nodes.nodes)
    /\ self_backrefs_map' = DictUpdate(self_backrefs_map, backrefs_map)
    /\ named_nodes' = [named_nodes EXCEPT !.nodes = res]
    /\ pc' = "reduced"
    /\ UNCHANGED <<text, tree, engine, pat, conditions, alt, idx, cur, res, backrefs_map,
                   result, backref_nodes,
                   returned>>

\* match_or_conditions: one turn of its loop over or_conditions
MatchOrConditionsStep ==
    /\ engine = "tregex" /\ pc = "or_conditions"
    /\ alt < Len(conditions)
    /\ \E r \in { match_and_conditions(named_nodes, conditions[alt + 1]) } :
           /\ alt' = alt + 1
           /\ pc' = IF r.err THEN "error" ELSE pc
           /\ res' = res \o r.res
           /\ backrefs_map' = DictExtend(backrefs_map, r.backrefs_map)
    /\ UNCHANGED <<text, tree, engine, pat, named_nodes, conditions, idx, cur,
                   self_backrefs_map, result, backref_nodes,
                   returned>>

\* p_named_nodes_or_conditions, once match_or_conditions has returned
NamedNodesOrConditions ==
    /\ engine = "tregex" /\ pc = "or_conditions"
    /\ alt = Len(conditions)
    /\ self_backrefs_map' = DictUpdate(self_backrefs_map, backrefs_map)
    /\ named_nodes' = [named_nodes EXCEPT !.nodes = res]
    /\ pc' = "reduced"
    /\ UNCHANGED <<text, tree, engine, pat, conditions, alt, idx, cur, res, backrefs_map,
                   result, backref_nodes,
                   returned>>

\* p_named_nodes and p_named_nodes_list: findall returns the nodes
NamedNodesList ==
    /\ engine = "tregex"
    /\ \/ pc = "reduced"
       \/ pc = "named_nodes" /\ named_nodes.name = pat.name
            /\ pat.conds = <<>> /\ pat.alts = <<>>
    /\ result' = named_nodes.nodes
    /\ pc' = "done"
    /\ returned' = Append(returned, [tree |-> tree, result |-> named_nodes.nodes,
                                     bindings |-> self_backrefs_map])
    /\ UNCHANGED <<text, tree, engine, pat, named_nodes, conditions, alt, idx, cur, res,
                   backrefs_map, self_backrefs_map, backref_nodes>>

\* pat.set_condition(condition) with the next condition of the pattern
SetCondition ==
    /\ engine = "condition" /\ pc = "start"
    /\ idx < Len(conditions)
    /\ \E r \in { set_condition(pat, conditions[idx + 1]) } :
           /\ pat' = r.val
           /\ idx' = idx + 1
           /\ pc' = IF r.err THEN "error" ELSE pc
    /\ UNCHANGED <<text, tree, engine, named_nodes, conditions, alt, cur, res, backrefs_map,
                   self_backrefs_map, result, backref_nodes,
                   returned>>

\* list(pat.searchNodeIterator(root))
SearchNodeIterator ==
    /\ engine = "condition" /\ pc = "start"
    /\ idx = Len(conditions)
    /\ \E r \in { NodeDescriptions_searchNodeIterator(pat, 1, TRUE, backref_nodes) } :
           /\ pc' = IF r.err THEN "error" ELSE "done"
           /\ result' = r.out
           /\ backref_nodes' = r.nodes
           /\ returned' = IF r.err THEN returned
                          ELSE Append(returned, [tree |-> tree, result |-> r.out,
                                                 bindings |-> r.nodes])
    /\ UNCHANGED <<text, tree, engine, pat, named_nodes, conditions, alt, idx, cur, res,
                   backrefs_map, self_backrefs_map>>

\* pat.condition.extend_conditions(...) with the conditions of the pattern
\* that are left
ExtendConditions ==
    /\ engine = "condition" /\ pc = "start"
    /\ pat.condition # NoCondition
    /\ idx < Len(conditions)
    /\ \E r \in { extend_conditions(pat.condition,
                                     SubSeq(conditions, idx + 1, Len(conditions))) } :
           /\ pat' = [pat EXCEPT !.condition = r.val]
           /\ idx' = Len(conditions)
           /\ pc' = IF r.err THEN "error" ELSE pc
    /\ UNCHANGED <<text, tree, engine, named_nodes, conditions, alt, cur, res, backrefs_map,
                   self_backrefs_map, result, backref_nodes, returned>>

\* the conditions that an And or Or is given after it has become a conjunct
FurtherConditions == { Condition("<", C_Bn), Condition(">", C_Any) }

\* child.append_condition(c) on a conjunct of pat.condition that is an And or
\* an Or: the caller has kept the object that it handed to set_condition,
\* and the And that holds it is not told
AppendToChild ==
    /\ engine = "condition" /\ pc = "start"
    /\ idx = Len(conditions)
    /\ pat.condition # NoCondition
    /\ \E k \in 1..Len(pat.condition.conditions) :
       \E c \in FurtherConditions :
           /\ pat.condition.conditions[k].type \in {"And", "Or"}
           /\ Len(pat.condition.conditions[k].conditions) < MaxConditions
           /\ \E r \in { IF pat.condition.conditions[k].type = "And"
                          THEN append_condition(pat.condition.conditions[k], c)
                          ELSE Or_append_condition(pat.condition.conditions[k], c) } :
                  /\ pat' = [pat EXCEPT !.condition.conditions[k] = r.val]
                  /\ pc' = IF r.err THEN "error" ELSE pc
    /\ UNCHANGED <<text, tree, engine, named_nodes, conditions, alt, idx, cur, res,
                   backrefs_map, self_backrefs_map, result, backref_nodes, returned>>

Next ==
    \/ ExtendConditions
    \/ AppendToChild
    \/ AnchorNodeDescriptions
    \/ AnchorEqualId
    \/ ParseAndConditions
    \/ ParseOrConditions
    \/ MatchAndConditionsStep
    \/ NamedNodesAndConditions
    \/ MatchOrConditionsStep
    \/ NamedNodesOrConditions
    \/ NamedNodesList
    \/ SetCondition
    \/ SearchNodeIterator

Spec == Init /\ [][Next]_vars

----------------------------------------------------------------------------
(* Further calls on one pattern object *)

\* the trees of a further call
NextTrees == TreesOver(PlainLabels, MaxNextNodes)

\* the patterns that are called more than once: those that name a node
InitCalls ==
    /\ tree \in TreesOver(PlainLabels, MaxNodes)
    /\ \/ /\ engine = "tregex"
          /\ pat \in T_BackReferences
                    \cup { Pattern(T_Plain(T_BLANK), "a", l, <<>>) : l \in Lists(T_Core) }
                    \cup { Pattern(T_Plain(T_BLANK), "a", <<>>, << <<a>>, <<b>> >>) :
                                a \in T_Core3, b \in T_Core3 }
          /\ conditions = <<>>
       \/ /\ engine = "condition"
          /\ \E p \in { C_BackReference }
                        \cup { << set_backref(C_Any, x), l >> :
                                    x \in {"a", "n"}, l \in Lists(C_Core) } :
                pat = p[1] /\ conditions = p[2]
    /\ Constructed

\* TregexPattern.findall(tree_string), called again on the pattern object
\* once a call has returned: a new parser, the lexer reset;
\* self.backrefs_map is left as it is
FindallAgain ==
    /\ engine = "tregex" /\ pc = "done"
    /\ Len(returned) < MaxCalls
    /\ tree' \in {tree} \cup NextTrees
    /\ pc' = "start"
    /\ named_nodes' = [name |-> NoName, nodes |-> <<>>]
    /\ conditions' = <<>>
    /\ alt' = 0
    /\ idx' = 0
    /\ cur' = Matched(0, EmptyMap)
    /\ res' = <<>>
    /\ backrefs_map' = EmptyMap
    /\ result' = <<>>
    /\ UNCHANGED <<text, engine, pat, self_backrefs_map, backref_nodes, returned>>

\* the caller hands the next tree to pat.searchNodeIterator, once a search
\* has returned; the BackRef of the pattern is left as it is
SearchAgain ==
    /\ engine = "condition" /\ pc = "done"
    /\ Len(returned) < MaxCalls
    /\ tree' \in {tree} \cup NextTrees
    /\ pc' = "start"
    /\ result' = <<>>
    /\ UNCHANGED <<text, engine, pat, named_nodes, conditions, alt, idx, cur, res, backrefs_map,
                   self_backrefs_map, backref_nodes, returned>>

NextCalls ==
    \/ AnchorNodeDescriptions
    \/ AnchorEqualId
    \/ ParseAndConditions
    \/ ParseOrConditions
    \/ MatchAndConditionsStep
    \/ NamedNodesAndConditions
    \/ MatchOrConditionsStep
    \/ NamedNodesOrConditions
    \/ NamedNodesList
    \/ SetCondition
    \/ SearchNodeIterator
    \/ FindallAgain
    \/ SearchAgain

SpecCalls == InitCalls /\ [][NextCalls]_vars

----------------------------------------------------------------------------
(* The pattern string.  text is the sequence of its lexemes, blanks        *)
(* dropped; the lexer gives each lexeme its token type and the parser      *)
(* built by yacc.yacc shifts and reduces by the grammar rules of           *)
(* make_parser, a shift/reduce conflict being settled by precedence.       *)

\* the keys of RELATION_MAP that the pattern strings of the model use
RelationKeys == Rels \cup {"<-", ">-", "<<<", "<<<-"}

\* the numbers of the pattern strings
Numerals == { ToString(k) : k \in 1..MaxIndex }

REL_W_NUM_ARG_MAP ==
    [k \in {">", ">-", "<", "<-", "<<<", "<<<-"} |->
        CASE k \in {">", ">-"} -> "ith_child_of"
          [] k \in {"<", "<-"} -> "has_ith_child"
          [] OTHER -> "ancestor_of_ith_leaf"]

\* the token type that the lexer gives a lexeme
token_type(lexeme) ==
    CASE lexeme \in RelationKeys -> "RELATION"
      [] lexeme = "__" -> "BLANK"
      [] lexeme \in Numerals -> "NUMBER"
      [] lexeme \in {"(", ")", "="} -> lexeme
      [] OTHER -> "ID"

\* a precedence table without the level of the rule and_condition
precedence_of_tokens ==
    << [assoc |-> "left", terms |-> {"OR_REL"}],
       [assoc |-> "right", terms |-> {"OR_NODE"}],
       [assoc |-> "nonassoc", terms |-> {"="}] >>

precedence ==
    << [assoc |-> "left", terms |-> {"IMAGINE_REDUCE"}],
       [assoc |-> "left", terms |-> {"OR_REL"}],
       [assoc |-> "right", terms |-> {"OR_NODE"}],
       [assoc |-> "nonassoc", terms |-> {"="}] >>

\* the precedence of a token, or of a rule by its %prec: the level of the
\* table that lists it, and ("right", 0) when none does
Prec(term) ==
    IF \E l \in 1..Len(precedence) : term \in precedence[l].terms
    THEN LET l == CHOOSE l \in 1..Len(precedence) : term \in precedence[l].terms
         IN  [assoc |-> precedence[l].assoc, level |-> l]
    ELSE [assoc |-> "right", level |-> 0]

\* a shift/reduce conflict between shifting the token and reducing by a rule
Resolve(token, rule) ==
    LET s == Prec(token)
        r == Prec(rule)
    IN  IF s.level < r.level \/ (s.level = r.level /\ r.assoc = "left") THEN "reduce"
        ELSE IF s.level = r.level /\ r.assoc = "nonassoc" THEN "error"
        ELSE "shift"

\* what the parser hands back: the value of expr, or the exception raised
Accepted(v) == [val |-> v, exc |-> "None"]

\* p_error: raise SystemExit(msg)
p_error == [val |-> <<>>, exc |-> "SystemExit"]

KeyError == [val |-> <<>>, exc |-> "KeyError"]

\* rel_key.endswith(suffix), for the keys of RELATION_MAP
endswith(rel_key, suffix) == \E k \in RelationKeys : rel_key = k \o suffix

\* int(num)
int(num) == CHOOSE n \in (-MaxIndex)..MaxIndex : ToString(n) = num

\* p_relation: RelationData(string_repr, self.RELATION_MAP[string_repr])
p_relation(string_repr) == Accepted([prefix |-> <<>>, rel |-> string_repr])

\* p_relation_number: RelationWithNumArgData(..., self.REL_W_NUM_ARG_MAP[rel_key], arg=int(num))
p_relation_number(rel_key, num) ==
    IF rel_key \notin DOMAIN REL_W_NUM_ARG_MAP THEN KeyError
    ELSE Accepted([prefix |-> <<>>,
                   rel |-> WithNumArg(REL_W_NUM_ARG_MAP[rel_key],
                                      int(IF endswith(rel_key, "-") THEN "-" \o num
                                          ELSE num))])

\* p_ID / p_BLANK, p_node_description and p_node_descriptions on one lexeme
p_node_descriptions(type, lexeme) ==
    Written(T_Plain(IF type = "BLANK" THEN T_BLANK ELSE T_ID(<< lexeme >>)), NoName, <<>>)

\* the parser's stack: the symbol and the value of the n-th entry from the top
Sym(stack, n) == IF n <= Len(stack) THEN stack[Len(stack) + 1 - n].sym ELSE "$bottom"

Val(stack, n) == stack[Len(stack) + 1 - n].val

\* the stack after a rule of n symbols handed back val for sym
Reduced(stack, n, sym, val) ==
    Append(SubSeq(stack, 1, Len(stack) - n), [sym |-> sym, val |-> val])

\* the parser on the tokens from the k-th on
RECURSIVE parse(_, _, _)
parse(stack, toks, k) ==
    LET la == IF k > Len(toks) THEN "$end" ELSE token_type(toks[k])
        top == Sym(stack, 1)
        below == Sym(stack, 2)
        Shift == parse(Append(stack, [sym |-> la, val |-> toks[k]]), toks, k + 1)
        Reduce(n, sym, val) == parse(Reduced(stack, n, sym, val), toks, k)
    IN  CASE top \in {"$bottom", "(", "relation_data"} ->
                IF la \in {"ID", "BLANK", "("} THEN Shift ELSE p_error
          [] top = "=" ->
                IF la = "ID" THEN Shift ELSE p_error
          [] top \in {"ID", "BLANK"} ->
                IF below = "="
                THEN \* p_named_nodes_equal_id
                     Reduce(3, "named_nodes", [Val(stack, 3) EXCEPT !.name = Val(stack, 1)])
                ELSE Reduce(1, "named_nodes", p_node_descriptions(top, Val(stack, 1)))
          [] top = "RELATION" ->
                IF la = "NUMBER" THEN Shift
                ELSE LET Data(r) == Reduce(1, "relation_data", r.val)
                     IN  Data(p_relation(Val(stack, 1)))
          [] top = "NUMBER" ->
                LET Data(r) == IF r.exc # "None" THEN r
                               ELSE Reduce(2, "relation_data", r.val)
                IN  Data(p_relation_number(Val(stack, 2), Val(stack, 1)))
          [] top = ")" ->
                \* p_lparen_named_nodes_rparen
                Reduce(3, "named_nodes", Val(stack, 2))
          [] top = "named_nodes" /\ below = "relation_data" ->
                \* p_relation_data_named_nodes, %prec IMAGINE_REDUCE
                LET ToCondition ==
                        Reduce(2, "and_condition",
                               W_Rel(Val(stack, 2).prefix, Val(stack, 2).rel, Val(stack, 1)))
                    Conflict(way) ==
                        CASE way = "shift" -> Shift
                          [] way = "reduce" -> ToCondition
                          [] OTHER -> p_error
                IN  CASE la \in {"=", "RELATION"} -> Conflict(Resolve(la, "IMAGINE_REDUCE"))
                      [] la \in {")", "$end"} -> ToCondition
                      [] OTHER -> p_error
          [] top = "named_nodes" ->
                CASE la \in {"=", "RELATION"} -> Shift
                  [] la = ")" /\ below = "(" -> Shift
                  [] la = "$end" /\ below = "$bottom" ->
                        \* p_named_nodes and p_named_nodes_list
                        Accepted(Pattern(Val(stack, 1).nd, Val(stack, 1).name,
                                         Val(stack, 1).conds, <<>>))
                  [] OTHER -> p_error
          [] top = "and_condition" ->
                IF below = "and_conditions"
                THEN \* p_and_conditions_and_condition
                     Reduce(2, "and_conditions", Append(Val(stack, 2), Val(stack, 1)))
                ELSE \* p_and_condition
                     Reduce(1, "and_conditions", << Val(stack, 1) >>)
          [] top = "and_conditions" ->
                \* p_named_nodes_and_conditions, which has no precedence of its own
                LET ToNamedNodes ==
                        Reduce(2, "named_nodes",
                               [Val(stack, 2) EXCEPT !.conds = @ \o Val(stack, 1)])
                    Conflict(way) ==
                        CASE way = "shift" -> Shift
                          [] way = "reduce" -> ToNamedNodes
                          [] OTHER -> p_error
                IN  CASE la = "RELATION" -> Conflict(Resolve(la, "named_nodes_and_conditions"))
                      [] la \in {"=", ")", "$end"} -> ToNamedNodes
                      [] OTHER -> p_error

\* yacc.yacc(debug=True, start="expr") on the tokens of the pattern string
yacc(toks) == parse(<<>>, toks, 1)

\* pattern strings: `A < B << __`, `A < ( B << __ )`, `A < B = n << __`,
\* `A < ( B << __ = n )`, `A = n < B` and `A << 2 B`
Texts ==
    LET Anchors == {"A", "__"}
        Seconds == {"A", "B"}
        Thirds  == {"B", "__"}
        Written2 == {"<", ">", "<<"}
    IN  { << x, r1, y, r2, z >> :
                x \in Anchors, r1 \in Written2, y \in Seconds, r2 \in Written2, z \in Thirds }
        \cup { << x, r1, "(", y, r2, z, ")" >> :
                x \in Anchors, r1 \in Written2, y \in Seconds, r2 \in Written2, z \in Thirds }
        \cup { << x, r1, y, "=", "n", r2, z >> :
                x \in Anchors, r1 \in Written2, y \in Seconds, r2 \in Written2, z \in Thirds }
        \cup { << x, r1, "(", y, r2, z, "=", "n", ")" >> :
                x \in Anchors, r1 \in Written2, y \in Seconds, r2 \in Written2, z \in Thirds }
        \cup { << x, "=", "n", r1, y >> : x \in Anchors, r1 \in Written2, y \in Seconds }
        \cup { << x, r, k, y >> :
                x \in Anchors, r \in RelationKeys, k \in Numerals, y \in Thirds }

\* TregexPattern(text), before findall
InitText ==
    /\ engine = "tregex"
    /\ tree \in TreesOver(PlainLabels, MaxNodes)
    /\ text \in Texts
    /\ pat = <<>>
    /\ conditions = <<>>
    /\ pc = "text"
    /\ named_nodes = [name |-> NoName, nodes |-> <<>>]
    /\ alt = 0
    /\ idx = 0
    /\ cur = Matched(0, EmptyMap)
    /\ res = <<>>
    /\ backrefs_map = EmptyMap
    /\ self_backrefs_map = EmptyMap
    /\ result = <<>>
    /\ backref_nodes = NoNodeList
    /\ returned = <<>>

\* parser.parse(lexer=self.lexer): the shifts and reductions on the tokens
\* of the pattern string, which give the pattern its structure
Yacc ==
    /\ engine = "tregex" /\ pc = "text"
    /\ \E r \in { yacc(text) } :
           /\ pc' = CASE r.exc = "None" -> "start"
                      [] r.exc = "SystemExit" -> "error"
                      [] OTHER -> r.exc
           /\ pat' = IF r.exc = "None" THEN r.val ELSE pat
    /\ UNCHANGED <<text, tree, engine, named_nodes, conditions, alt, idx, cur, res,
                   backrefs_map, self_backrefs_map, result, backref_nodes, returned>>

NextText ==
    \/ Yacc
    \/ AnchorNodeDescriptions
    \/ AnchorEqualId
    \/ ParseAndConditions
    \/ MatchAndConditionsStep
    \/ NamedNodesAndConditions
    \/ NamedNodesList

SpecText == InitText /\ [][NextText]_vars

----------------------------------------------------------------------------
(* What the properties speak of *)

RECURSIVE SeqSum(_)
SeqSum(s) == IF s = <<>> THEN 0 ELSE Head(s) + SeqSum(Tail(s))

RECURSIVE SeqProduct(_)
SeqProduct(s) == IF s = <<>> THEN 1 ELSE Head(s) * SeqProduct(Tail(s))

\* nodes are numbered in preorder: a sequence of nodes is in preorder order
\* when it never steps back
InPreorder(nodes) == \A i \in 1..Len(nodes) : \A j \in i..Len(nodes) : nodes[i] <= nodes[j]

\* tregex.py has just matched the conjunction at an anchor, without error
AtAnchor == engine = "tregex" /\ pc = "and_conditions" /\ idx > 0

\* that anchor
this == named_nodes.nodes[idx]

\* tregex.py: the pattern is an anchor with the one written condition of these types
OneWritten(types) ==
    /\ engine = "tregex" /\ "conds" \in DOMAIN pat
    /\ Len(pat.conds) = 1 /\ pat.conds[1].type \in types

\* tregex.py: the written conjunction `conds` parsed and matched alone at a
\* node of the given name
WrittenAlone(conds, node, name) ==
    LET At(cs) == IF cs.err THEN SystemExit
                  ELSE match_and_conditions_cur_node(node, name, cs.val)
    IN  At(p_and_conditions(conds, 1, <<>>, self_backrefs_map))

\* tregex.py: the written alternatives, each parsed and matched alone at a node
AlternativesAlone(alts, node) ==
    [a \in 1..Len(alts) |-> WrittenAlone(alts[a], node, named_nodes.name)]

\* tregex.py: the node satisfies a written description with its conditions
SatisfiesWritten(those, that) ==
    /\ that \in Range(match_node_descriptions(those.nd))
    /\ those.conds # <<>> => WrittenAlone(those.conds, that, those.name).match_count > 0

\* tregex.py: the nodes `that` with rel(node, that) that satisfy the written
\* description, in preorder order
SatisfyingThose(w, node) ==
    SelectSeq(preorder_iter(1),
              LAMBDA that : condition_func(w.rel, node, that) /\ SatisfiesWritten(w.those, that))

\* condition.py has searched the whole tree for an anchor with conditions, without error
Searched == engine = "condition" /\ pc = "done" /\ pat.condition # NoCondition

\* condition.py: the anchor's And holds one condition of this type
OneCondition(type) ==
    /\ Searched /\ Len(pat.condition.conditions) = 1
    /\ pat.condition.conditions[1].type = type

\* condition.py: the node matches the anchor's descriptions
IsAnchor(n) == _satisfies_ignore_condition(pat, n).val

\* condition.py: the count of a condition evaluated alone at a node
CountAlone(c, n) == Len(searchNodeIterator(c, n).out)

----------------------------------------------------------------------------
(* The properties *)

\* C1: the sequence find_all returns lists the matched anchors in preorder
\* order, copies of one anchor together, also for an anchor with a
\* disjunction that two or more anchors match.
C1_PreorderOrder == pc = "done" => InPreorder(result)

\* C2: at every anchor the number of times the anchor is emitted for a
\* conjunction c1..cn is the product of the counts of c1..cn alone at that
\* anchor, and 0 once a count is 0.
C2_ConjunctionProduct ==
    /\ AtAnchor
        => LET alone == [k \in 1..Len(conditions) |->
                            match_and_conditions_cur_node(this, named_nodes.name,
                                                          << conditions[k] >>)]
           IN  (\A k \in 1..Len(conditions) : ~alone[k].err)
                => /\ cur.match_count =
                        SeqProduct([k \in 1..Len(conditions) |-> alone[k].match_count])
                   /\ Count(this, res) = cur.match_count
    /\ Searched
        => \A n \in Nodes :
            Count(n, result) =
                IF IsAnchor(n)
                THEN SeqProduct([k \in 1..Len(pat.condition.conditions) |->
                                    CountAlone(pat.condition.conditions[k], n)])
                ELSE 0

\* an anchor emitted four times for two conditions of count two each
C2_Witness ==
    /\ AtAnchor /\ Len(conditions) = 2 /\ cur.match_count = 4
    /\ \A k \in 1..2 :
        match_and_conditions_cur_node(this, named_nodes.name,
                                      << conditions[k] >>).match_count = 2

\* C3: at every anchor the number of times the anchor is emitted for a
\* disjunction A || B is count(A) + count(B) at that anchor.
C3_DisjunctionSum ==
    /\ (engine = "tregex" /\ pc = "or_conditions" /\ alt = Len(conditions))
        => \A n \in Nodes :
            Count(n, res) =
                IF n \in Range(named_nodes.nodes)
                THEN SeqSum([k \in 1..Len(conditions) |->
                        match_and_conditions_cur_node(n, named_nodes.name,
                                                      conditions[k]).match_count])
                ELSE 0
    /\ OneCondition("Or")
        => \A n \in Nodes :
            Count(n, result) =
                IF IsAnchor(n)
                THEN SeqSum([j \in 1..Len(pat.condition.conditions[1].conditions) |->
                        CountAlone(pat.condition.conditions[1].conditions[j], n)])
                ELSE 0

\* an anchor that satisfies both alternatives once and is emitted twice
C3_Witness ==
    /\ engine = "tregex" /\ pc = "or_conditions" /\ alt = 2 /\ Len(conditions) = 2
    /\ \E n \in Range(named_nodes.nodes) :
        /\ Count(n, res) = 2
        /\ \A k \in 1..2 :
            match_and_conditions_cur_node(n, named_nodes.name,
                                          conditions[k]).match_count = 1

\* the count of the group inside a written negated or optional group, alone
\* at a node: a conjunction's count, or the sum over the alternatives
InnerAlone(group, node) ==
    IF group.type \in {"not", "opt"}
    THEN WrittenAlone(group.conds, node, named_nodes.name)
    ELSE LET alts == AlternativesAlone(group.alts, node)
         IN  IF \E a \in 1..Len(alts) : alts[a].err THEN SystemExit
             ELSE Matched(SeqSum([a \in 1..Len(alts) |-> alts[a].match_count]), EmptyMap)

C5_OptionalGroup ==
    /\ (pc = "reduced" /\ OneWritten({"opt", "optor"}))
        => \A n \in Nodes :
            LET inner == InnerAlone(pat.conds[1], n)
            IN  ~inner.err
                => Count(n, named_nodes.nodes) =
                    IF n \in Range(match_node_descriptions(pat.nd))
                    THEN Max({1, inner.match_count})
                    ELSE 0
    /\ OneCondition("Opt")
        => \A n \in Nodes :
            Count(n, result) =
                IF IsAnchor(n)
                THEN Max({1, CountAlone(pat.condition.conditions[1].condition, n)})
                ELSE 0

\* an anchor kept once by an optional group whose inner count is 0 there
C5_Witness ==
    /\ pc = "reduced" /\ OneWritten({"opt", "optor"})
    /\ \E n \in Range(match_node_descriptions(pat.nd)) :
        /\ ~InnerAlone(pat.conds[1], n).err
        /\ InnerAlone(pat.conds[1], n).match_count = 0
        /\ Count(n, named_nodes.nodes) = 1

\* tregex.py: the pattern is an anchor with one relation of this prefix
OneRelation(prefix) == OneWritten({"rel"}) /\ pat.conds[1].prefix = prefix

\* C6: a negated relation !rel desc at an anchor has count 1 iff no node
\* `that` with rel(node, that) satisfies desc, count 0 otherwise, and
\* contributes no bindings.
C6_NegatedRelation ==
    (AtAnchor /\ OneRelation(<<"!">>))
        => /\ cur.match_count = (IF SatisfyingThose(pat.conds[1], this) = <<>> THEN 1 ELSE 0)
           /\ cur.backrefs_map = EmptyMap

\* a negated relation that counts 1 at an anchor although nodes satisfy desc
C6_Witness ==
    /\ AtAnchor /\ OneRelation(<<"!">>)
    /\ cur.match_count = 1
    /\ conditions[1].named_nodes.nodes # <<>>
    /\ pat.conds[1].those.conds # <<>>

\* C7: an optional relation ?rel desc at an anchor has count 1 always, and
\* the binding of a named desc holds every satisfying `that` in candidate
\* order, the empty list when none satisfies.
C7_OptionalRelation ==
    (AtAnchor /\ OneRelation(<<"?">>))
        => /\ cur.match_count = 1
           /\ pat.conds[1].those.name # NoName
                => /\ pat.conds[1].those.name \in DOMAIN cur.backrefs_map
                   /\ Range(cur.backrefs_map[pat.conds[1].those.name]) =
                        Range(SatisfyingThose(pat.conds[1], this))
                   /\ cur.backrefs_map[pat.conds[1].those.name] =
                        SelectSeq(conditions[1].named_nodes.nodes,
                                  LAMBDA that : condition_func(pat.conds[1].rel, this, that))

\* an optional relation to a named desc that two nodes satisfy
C7_Witness ==
    /\ AtAnchor /\ OneRelation(<<"?">>)
    /\ pat.conds[1].those.name = "n"
    /\ cur.match_count = 1
    /\ Cardinality(Range(cur.backrefs_map["n"])) = 2

\* C8: a plain relation rel desc at an anchor counts the nodes `that` with
\* rel(node, that) that satisfy desc, each once, also when desc has a
\* sub-condition that matches at `that` in several ways.
C8_PlainRelation ==
    (AtAnchor /\ OneRelation(<<>>))
        => cur.match_count = Len(SatisfyingThose(pat.conds[1], this))

\* C9: a NodeDescriptions with several alternatives under negation is
\* satisfied by a node iff no alternative matches the node's attribute.
C9_NegatedAlternatives ==
    /\ (engine = "tregex" /\ pc = "named_nodes"
            /\ pat.nd.is_negated /\ Len(pat.nd.descriptions) >= 2)
        => \A n \in Nodes :
            n \in Range(named_nodes.nodes)
                <=> ~\E k \in 1..Len(pat.nd.descriptions) :
                        desc_condition_func(pat.nd.descriptions[k], n, FALSE,
                                            pat.nd.use_basic_cat)
    /\ (engine = "condition" /\ pc = "done" /\ pat.condition = NoCondition
            /\ pat.under_negation /\ Len(pat.descriptions) >= 2)
        => \A n \in Nodes :
            n \in Range(result)
                <=> ~\E k \in 1..Len(pat.descriptions) :
                        LET s == op_satisfies(pat.descriptions[k], n, FALSE,
                                              pat.use_basic_cat)
                        IN  ~s.err /\ s.val

\* C10: on a node whose chosen attribute is absent an ID or REGEX description
\* is false when not negated and true when negated; BLANK is
\* `not under_negation` on every node and ROOT is
\* `(parent is null) XOR under_negation`.
C10_AbsentAttribute ==
    /\ (engine = "tregex" /\ pc = "named_nodes" /\ Len(pat.nd.descriptions) = 1)
        => \A n \in Nodes :
            LET d == pat.nd.descriptions[1]
                found == n \in Range(named_nodes.nodes)
            IN  /\ (d.op \in {"ID", "REGEX"} /\ getattr(n, pat.nd.use_basic_cat) = None)
                        => (found <=> pat.nd.is_negated)
                /\ d.op = "BLANK" => (found <=> ~pat.nd.is_negated)
    /\ (engine = "condition" /\ pc = "done" /\ pat.condition = NoCondition
            /\ Len(pat.descriptions) = 1)
        => \A n \in Nodes :
            LET d == pat.descriptions[1]
                found == n \in Range(result)
            IN  /\ (d.op \in {"ID", "REGEX"} /\ getattr(n, pat.use_basic_cat) = None)
                        => (found <=> pat.under_negation)
                /\ d.op = "ANY" => (found <=> ~pat.under_negation)
                /\ d.op = "ROOT" => (found <=> ((parent(n) = 0) # pat.under_negation))

\* a negated REGEX description found on a node without a label, beside a
\* labelled node
C10_Witness ==
    /\ engine = "condition" /\ pc = "done" /\ pat.condition = NoCondition
    /\ Len(pat.descriptions) = 1 /\ pat.descriptions[1].op = "REGEX"
    /\ pat.under_negation
    /\ \E n \in Nodes : label(n) = None /\ n \in Range(result)
    /\ \E n \in Nodes : label(n) # None

\* a REGEX token carries a flag that is neither `i` nor `x`
UnsupportedFlag(regex) ==
    \E k \in 1..Len(RegexFlags(regex)) : RegexFlags(regex)[k] \notin {"i", "x"}

\* C11: a pattern that holds a regex with a trailing flag other than `i` or
\* `x` is rejected with an error, whatever tree is matched: no match list is
\* ever returned for it.
C11_UnsupportedFlagRejected ==
    (engine = "condition"
        /\ \E k \in 1..Len(pat.descriptions) :
            pat.descriptions[k].op = "REGEX" /\ UnsupportedFlag(pat.descriptions[k].value))
        => pc # "done"

\* a sequence of names holds one name twice
Repeats(names) ==
    \E i \in 1..Len(names) : \E j \in (i + 1)..Len(names) :
        names[i] = names[j] /\ names[i] # NoName

\* tregex.py: the names the written pattern declares in the scope of the
\* anchor's conjunction: the anchor's, and those of the nodes its relations describe
T_DeclaredNames ==
    << pat.name >> \o [k \in 1..Len(pat.conds) |->
                        IF pat.conds[k].type = "rel" THEN pat.conds[k].those.name ELSE NoName]

\* condition.py: the names declared in the scope of the anchor's conjunction
C_DeclaredNames ==
    << pat.name >> \o [k \in 1..Len(conditions) |->
                        IF conditions[k].type = "Condition"
                        THEN conditions[k].node_descriptions.name ELSE NoName]

\* C12: a pattern that declares one name twice in the scope of one
\* conjunction is rejected with an error for every tree, also for a tree in
\* which no node matches the anchor: it never returns a match list.
C12_DeclaredTwiceRejected ==
    /\ (engine = "tregex" /\ Repeats(T_DeclaredNames)) => pc # "done"
    /\ (engine = "condition" /\ Repeats(C_DeclaredNames)) => pc # "done"

\* tregex.py: the names a written condition gives to nodes
RECURSIVE W_Names(_)
W_Names(c) ==
    CASE c.type = "rel" ->
            ({c.those.name} \ {NoName})
            \cup UNION { W_Names(c.those.conds[k]) : k \in 1..Len(c.those.conds) }
      [] c.type \in {"not", "opt"} ->
            UNION { W_Names(c.conds[k]) : k \in 1..Len(c.conds) }
      [] c.type \in {"notor", "optor"} ->
            UNION { UNION { W_Names(c.alts[a][k]) : k \in 1..Len(c.alts[a]) } :
                        a \in 1..Len(c.alts) }
      [] c.type = "multi" ->
            UNION { W_Names(W_Rel(<<>>, "<", c.those[k])) : k \in 1..Len(c.those) }

\* condition.py: the names a condition gives to nodes
RECURSIVE C_Names(_)
C_Names(c) ==
    CASE c.type = "Condition" ->
            ({c.node_descriptions.name} \ {NoName})
            \cup (IF c.node_descriptions.condition = NoCondition THEN {}
                  ELSE C_Names(c.node_descriptions.condition))
      [] c.type \in {"And", "Or"} ->
            UNION { C_Names(c.conditions[k]) : k \in 1..Len(c.conditions) }
      [] c.type \in {"Not", "Opt"} -> C_Names(c.condition)

\* tregex.py: the written pattern names a node in the scope of a negation
T_NamesUnderNegation ==
    \E k \in 1..Len(pat.conds) :
        /\ W_Names(pat.conds[k]) # {}
        /\ \/ pat.conds[k].type \in {"not", "notor"}
           \/ pat.conds[k].type = "rel" /\ "!" \in Range(pat.conds[k].prefix)

\* condition.py: a condition of the pattern names a node in the scope of a Not
C_NamesUnderNegation ==
    \E k \in 1..Len(conditions) :
        conditions[k].type = "Not" /\ C_Names(conditions[k]) # {}

\* C13: a pattern that names a node in the scope of a negation is rejected
\* with an error for every tree, also for a tree in which no node matches
\* the anchor: it never returns a match list.
C13_NamedUnderNegationRejected ==
    /\ (engine = "tregex" /\ T_NamesUnderNegation) => pc # "done"
    /\ (engine = "condition" /\ C_NamesUnderNegation) => pc # "done"

\* tregex.py: a condition the parser has built holds a relation that is
\* negated and optional at once
RECURSIVE NegatedAndOptional(_)
NegatedAndOptional(c) ==
    CASE c.type = "AndCondition" -> c.is_negated /\ c.is_optional
      [] c.type \in {"NotAndCondition", "OptionalAndCondition"} ->
            \E k \in 1..Len(c.conditions) : NegatedAndOptional(c.conditions[k])
      [] c.type = "OptionalOrConditions" ->
            \E a \in 1..Len(c.conditions) : \E k \in 1..Len(c.conditions[a]) :
                NegatedAndOptional(c.conditions[a][k])
      [] OTHER -> FALSE

\* C14: no relation that the parser has built, through any prefixes `!` and
\* `?` and through negated groups around it, is negated and optional at once.
C14_NegatedOrOptional ==
    /\ (engine = "tregex" /\ pc = "and_conditions")
        => \A k \in 1..Len(conditions) : ~NegatedAndOptional(conditions[k])
    /\ (engine = "tregex" /\ pc = "or_conditions")
        => \A a \in 1..Len(conditions) : \A k \in 1..Len(conditions[a]) :
                ~NegatedAndOptional(conditions[a][k])

\* C15: `foo=a <bar=a << baz=a` is a valid pattern: on the tree
\* (foo bar (rab (baz bar))) the search ends without error, returns the root
\* foo, and in tregex.py binds a to [foo, bar, baz].
C15_ReusedNameAccepted ==
    (tree = ReusedNameTree /\ pc \in {"done", "error"})
        => /\ pc = "done"
           /\ result = << 1 >>
           /\ engine = "tregex"
                => /\ "a" \in DOMAIN self_backrefs_map
                   /\ self_backrefs_map["a"] = << 1, 2, 4 >>

\* tregex.py: the nodes that the written named node `those` stands for, for
\* `B=n` and `(B=n > A)`
T_DeclaredNodes(those) ==
    { k \in Nodes :
        /\ label(k) = <<"B">>
        /\ those = T_BnUnderA => parent(k) # 0 /\ label(parent(k)) = <<"A">> }

\* tregex.py: the nodes bound to n when `=n` is reduced, in a pattern whose
\* first relation declares n on `those` and whose second relation is `=n`: the
\* nodes of the declaration or, when it has conditions that no node matched,
\* the nodes that `B=n` had stored before them
T_BoundNodes(those) ==
    IF T_DeclaredNodes(those) # {} THEN T_DeclaredNodes(those) ELSE T_DeclaredNodes(T_Bn)

\* tregex.py: every node `=n` stands for is one of the nodes bound to n, and
\* an anchor is returned once for every pair of a node of the declaration
\* and a bound node that the two relations reach from it
T_BackReferenceByIdentity ==
    \A r \in {"<", "<<"}, b \in {T_BnUnderA, T_Bn} :
        (/\ engine = "tregex" /\ pc = "done"
         /\ pat = Pattern(T_Plain(T_BLANK), NoName,
                          << W_Rel(<<>>, r, b), W_Rel(<<>>, r, T_EqualId("n")) >>, <<>>))
            => /\ Range(conditions[2].named_nodes.nodes) \subseteq T_BoundNodes(b)
               /\ \A a \in Nodes :
                    LET reached == Range(rel_searchNodeIterator(r, a))
                    IN  Count(a, result) =
                            Cardinality(reached \cap T_DeclaredNodes(b))
                                * Cardinality(reached \cap T_BoundNodes(b))

\* condition.py: in a match of `B=n < (__ < =n)`, every node that satisfies
\* the NodeDescriptions of the second occurrence of n is one of the nodes
\* held by the BackRef n
C_BackReferenceByIdentity ==
    (engine = "condition" /\ pc = "done" /\ pat.descriptions = C_BackReference[1].descriptions
     /\ pat.backref /\ conditions = C_BackReference[2])
        => \A a \in Range(result) : \A c \in Nodes : \A d \in Nodes :
                (/\ parent(c) = a /\ parent(d) = c
                 /\ NodeDescriptions_satisfies(set_backref(C_B, "n"), d).val)
                    => backref_nodes.is_list /\ d \in Range(backref_nodes.list)

\* C16: every node that a back-reference =name matches is one of the nodes
\* bound to that name before: a node that has the label of a bound node and
\* is not bound itself never satisfies =name
C16_BackReferenceByIdentity ==
    T_BackReferenceByIdentity /\ C_BackReferenceByIdentity

\* C17: a pattern with a back-reference =n to a name that no earlier part of
\* it declares is rejected while it is parsed: matching never starts on it
\* and no list of matches is returned
C17_UndeclaredReferenceRejected ==
    (engine = "tregex" /\ pat \in T_UndeclaredReferences)
        => /\ pc \in {"start", "named_nodes", "error"}
           /\ result = <<>>
           /\ res = <<>>

\* the parser has stopped at `=n` of `B !> =n` on a tree whose root is a B
C17_Witness ==
    /\ engine = "tregex" /\ pc = "error"
    /\ pat = Pattern(T_Plain(T_ID(<<"B">>)), NoName,
                     << W_Rel(<<"!">>, ">", T_EqualId("n")) >>, <<>>)
    /\ label(1) = <<"B">>
    /\ "n" \notin DOMAIN self_backrefs_map

\* list(node.children)
Kids(node) == SelectSeq([k \in 1..Len(tree.parent) |-> k], LAMBDA k : parent(k) = node)

\* C18: a block `<... { a1 ; ... ; an }` matches at an anchor exactly when the
\* anchor has exactly n children and its i-th child satisfies ai, for every
\* i: not with fewer children, with a further child or in another order
C18_MultiRelationBlock ==
    (engine = "tregex" /\ pc = "done" /\ OneWritten({"multi"}))
        => \A a \in Nodes :
            a \in Range(result)
                <=> /\ SatisfiesWritten([pat EXCEPT !.conds = <<>>], a)
                    /\ Len(Kids(a)) = Len(pat.conds[1].those)
                    /\ \A i \in 1..Len(Kids(a)) :
                            SatisfiesWritten(pat.conds[1].those[i], Kids(a)[i])

\* `__ <... { A ; B }` has matched the root of (A A B) or (B A B)
C18_Witness ==
    /\ engine = "tregex" /\ pc = "done"
    /\ pat = Pattern(T_Plain(T_BLANK), NoName, << W_Multi(<< T_A, T_B >>) >>, <<>>)
    /\ tree.parent = << 0, 1, 1 >>
    /\ result = << 1 >>

\* C19: the calls on one pattern object with the same tree return the same
\* sequence (and, in tregex.py, leave the same bindings), and the BackRef of
\* a named anchor holds after every call the nodes of that call only
C19_RepeatedCalls ==
    /\ \A i \in 1..Len(returned) : \A j \in (i + 1)..Len(returned) :
            returned[i].tree = returned[j].tree
                => /\ returned[i].result = returned[j].result
                   /\ engine = "tregex" => returned[i].bindings = returned[j].bindings
    /\ \A j \in 1..Len(returned) :
            (engine = "condition" /\ pat.backref)
                => returned[j].bindings = NodeList(returned[j].result)

\* tregex.py: the pattern as written, without the alternatives after its anchor
T_WrittenPattern == [nd |-> pat.nd, ref |-> pat.ref, name |-> pat.name, conds |-> pat.conds]

\* C20: a call on a shared pattern object that runs after another call on it
\* returns the matches and leaves the bindings of a call on a pattern object
\* that no other call has used
C20_SharedPattern ==
    /\ (engine = "condition" /\ pc = "done")
            => LET alone == NodeDescriptions_searchNodeIterator(pat, 1, TRUE, NoNodeList)
               IN  result = alone.out /\ backref_nodes = alone.nodes
    /\ (engine = "tregex" /\ pc = "done" /\ pat.alts = <<>>)
            => LET alone == p_named_nodes(T_WrittenPattern, EmptyMap)
               IN  /\ ~alone.err
                   /\ result = alone.val.nodes
                   /\ self_backrefs_map = alone.sbm

\* tregex.py: the nodes the written conjunction << w >> binds at the anchor:
\* those in the relation that satisfy the description
BoundAt(w, a) == SatisfyingThose(w[1], a)

\* tregex.py: the two alternatives of the pattern that bind one name, when
\* it is `anchor [ c1 || c2 ]` or `anchor ?[ c1 || c2 ]`
NamedAlts ==
    IF pat.alts # <<>> THEN pat.alts
    ELSE IF Len(pat.conds) = 1 /\ pat.conds[1].type = "optor" THEN pat.conds[1].alts
    ELSE <<>>

\* tregex.py: findall has returned for a pattern whose alternatives both bind `name`
BothBind(name) ==
    /\ engine = "tregex" /\ pc = "done"
    /\ Len(NamedAlts) = 2
    /\ \A k \in 1..2 : Len(NamedAlts[k]) = 1 /\ NamedAlts[k][1].type = "rel"
                        /\ NamedAlts[k][1].those.name = name

\* the binding of a name that the alternatives of `anchor [ c1 || c2 ]` bind:
\* the nodes c1 binds at the anchors, then the nodes c2 binds at them
BoundByAlternatives ==
    Flatten([k \in 1..2 |->
        Flatten([i \in 1..Len(preorder_iter(1)) |->
            IF SatisfiesWritten([pat EXCEPT !.conds = <<>>], i)
            THEN BoundAt(NamedAlts[k], i) ELSE <<>>])])

\* the binding of a name that the alternatives of `anchor ?[ c1 || c2 ]`
\* bind: for every anchor in turn, the nodes c1 binds, then the nodes c2 binds
BoundByOptionalAlternatives ==
    Flatten([i \in 1..Len(preorder_iter(1)) |->
        IF SatisfiesWritten([pat EXCEPT !.conds = <<>>], i)
        THEN BoundAt(NamedAlts[1], i) \o BoundAt(NamedAlts[2], i) ELSE <<>>])

\* C21: when the alternatives of a disjunction bind the same name, the
\* binding of the name after matching is the concatenation, in alternative
\* order, of the nodes every alternative binds; `A ?[< B=foo || < C=foo]`
\* on (A (B 1) (C 2) (B 3)) returns A and binds foo to both B and the C
C21_AlternativesConcatenated ==
    /\ \A name \in {"n", "foo"} :
        BothBind(name)
            => /\ name \in DOMAIN self_backrefs_map
               /\ self_backrefs_map[name] =
                    IF pat.alts # <<>> THEN BoundByAlternatives
                    ELSE BoundByOptionalAlternatives
    /\ (engine = "tregex" /\ pc = "done" /\ pat = T_SharedName)
            => /\ Range(result) = {1}
               /\ self_backrefs_map["foo"] = << 2, 6, 4 >>

\* tregex.py: the k-th conjunct of the parsed conjunction, matched alone at the anchor
ConjunctAlone(k) == match_and_conditions_cur_node(this, named_nodes.name, << conditions[k] >>)

\* the conjuncts that write the name, in order
Writers(name) ==
    { k \in 1..Len(conditions) : name \in DOMAIN ConjunctAlone(k).backrefs_map }

\* C22: a conjunction evaluated at an anchor gives every name the binding of
\* the last conjunct that writes it; when some conjunct has count 0 it gives
\* count 0 and no binding at all
C22_ConjunctionMerge ==
    (AtAnchor /\ pc = "and_conditions")
        => IF \E k \in 1..Len(conditions) : ConjunctAlone(k).match_count = 0
           THEN cur = Matched(0, EmptyMap)
           ELSE /\ DOMAIN cur.backrefs_map =
                        UNION { DOMAIN ConjunctAlone(k).backrefs_map : k \in 1..Len(conditions) }
                /\ \A name \in DOMAIN cur.backrefs_map :
                        cur.backrefs_map[name] =
                            ConjunctAlone(Max(Writers(name))).backrefs_map[name]

\* `__=a << __ < B` at a node with two descendants and one child B: the name
\* a is written by both conjuncts, and the list of the second replaces the
\* longer list of the first
C22_Witness ==
    /\ AtAnchor /\ pc = "and_conditions" /\ Len(conditions) = 2
    /\ named_nodes.name = "a"
    /\ Writers("a") = {1, 2}
    /\ ConjunctAlone(1).backrefs_map["a"] = << this, this >>
    /\ ConjunctAlone(2).backrefs_map["a"] = << this >>
    /\ cur.match_count = 2
    /\ cur.backrefs_map["a"] = << this >>

\* an anchor at which the second conjunct has count 0 after the first bound a node
C22_WitnessZero ==
    /\ AtAnchor /\ pc = "and_conditions" /\ Len(conditions) = 2
    /\ ConjunctAlone(1).match_count > 0
    /\ ConjunctAlone(1).backrefs_map # EmptyMap
    /\ ConjunctAlone(2).match_count = 0
    /\ cur = Matched(0, EmptyMap)

\* tregex.py: findall has ended, with a list or with an error, for a pattern
\* of an anchor and one plain relation to a described node, on a tree that
\* has anchor candidates none of which has a node in the relation that
\* satisfies the description
NothingRelated ==
    /\ OneRelation(<<>>) /\ pc \in {"done", "error"}
    /\ pat.conds[1].those.ref = NoName
    /\ match_node_descriptions(pat.nd) # <<>>
    /\ \A a \in Range(match_node_descriptions(pat.nd)) : SatisfyingThose(pat.conds[1], a) = <<>>

\* C23: when anchor candidates exist and no node stands in the required
\* relation to any of them, findall returns the empty list and raises no
\* error, as `foo=a $ bar=a` does on (foo )
C23_NothingRelatedIsEmpty ==
    NothingRelated => pc = "done" /\ result = <<>>

----------------------------------------------------------------------------
(* Pattern strings *)

\* the node description written as lexeme holds of node
Is(lexeme, node) == lexeme = "__" \/ label(node) = << lexeme >>

\* the nodes that the description `lexeme` holds of and that a is in rel to
HowMany(rel, a, lexeme) ==
    Cardinality({ b \in Nodes : Is(lexeme, b) /\ condition_func(rel, a, b) })

\* the nodes that `x` holds of, in preorder, each repeated Times(a) times
AnchorsRepeated(x, Times(_)) ==
    Flatten([a \in 1..Len(tree.parent) |-> IF Is(x, a) THEN Repeat(a, Times(a)) ELSE <<>>])

\* `x r1 y r2 z` and `x r1 y = n r2 z`
IsChain == Len(text) = 5 /\ text[2] # "=" /\ token_type(text[3]) # "NUMBER"

IsNamedChain == Len(text) = 7 /\ text[4] = "="

\* `x r1 ( y r2 z )` and `x r1 ( y r2 z = n )`
IsGrouped == Len(text) = 7 /\ text[3] = "("

IsNamedGrouped == Len(text) = 9

\* `x = n r1 y`
IsNamedAnchor == Len(text) = 5 /\ text[2] = "="

\* both relations about the anchor: a is in r1 to a y and in r2 to a z
BothOfAnchor(x, r1, y, r2, z) ==
    AnchorsRepeated(x, LAMBDA a : HowMany(r1, a, y) * HowMany(r2, a, z))

\* the second relation about y: a is in r1 to a y that is in r2 to a z
SecondOfInner(x, r1, y, r2, z) ==
    AnchorsRepeated(x, LAMBDA a :
        SeqSum([b \in 1..Len(tree.parent) |->
                    IF Is(y, b) /\ condition_func(r1, a, b) THEN HowMany(r2, b, z) ELSE 0]))

\* the nodes bound to n when the call has returned are nodes that `lexeme` holds of
BoundIs(lexeme) ==
    /\ "n" \in DOMAIN self_backrefs_map
    /\ \A b \in Range(self_backrefs_map["n"]) : Is(lexeme, b)
    /\ Cardinality(DOMAIN self_backrefs_map) = 1

\* C24: in `A R1 B R2 C` both relations are about A, and R2 is about B only in
\* `A R1 ( B R2 C )`; `= n` names the node description written just before it
C24_RelationsAttachToAnchor ==
    /\ (IsChain \/ IsNamedChain \/ IsGrouped \/ IsNamedGrouped \/ IsNamedAnchor)
            => pc \notin {"error", "KeyError"}
    /\ pc = "done" =>
        /\ IsChain => result = BothOfAnchor(text[1], text[2], text[3], text[4], text[5])
        /\ IsNamedChain =>
                /\ result = BothOfAnchor(text[1], text[2], text[3], text[6], text[7])
                /\ BoundIs(text[3])
        /\ IsGrouped => result = SecondOfInner(text[1], text[2], text[4], text[5], text[6])
        /\ IsNamedGrouped =>
                /\ result = SecondOfInner(text[1], text[2], text[4], text[5], text[6])
                /\ BoundIs(text[6])
        /\ IsNamedAnchor =>
                /\ result = AnchorsRepeated(text[1], LAMBDA a : HowMany(text[4], a, text[5]))
                /\ BoundIs(text[1])

\* `A < B = n < __` on a tree where the B below an A has no child: the A is
\* found, which it is not when the second relation is about B, and n is a B
C24_Witness ==
    /\ pc = "done" /\ IsNamedChain
    /\ result # <<>>
    /\ result # SecondOfInner(text[1], text[2], text[3], text[6], text[7])
    /\ text[1] = "A" /\ text[3] = "B"
    /\ self_backrefs_map["n"] # <<>>

\* `x r k y`: a relation followed by a number
IsIndexed == Len(text) = 4 /\ token_type(text[3]) = "NUMBER"

\* the relations that have an indexed variant
IndexedKeys == {">", ">-", "<", "<-", "<<<", "<<<-"}

\* b is the node that the relation `key` with the number k takes a to
IndexedHolds(key, k, a, b) ==
    LET i == IF key \in {">-", "<-", "<<<-"} THEN -k ELSE k
    IN  CASE key \in {"<", "<-"} -> has_ith_child(a, b, i)
          [] key \in {">", ">-"} -> has_ith_child(b, a, i)
          [] key \in {"<<<", "<<<-"} -> ancestor_of_ith_leaf(a, b, i)

\* the pattern `x r k y` is accepted and finds the nodes in the indexed relation
IndexedAccepted ==
    /\ pc \notin {"error", "KeyError"}
    /\ pc = "done" =>
            result = AnchorsRepeated(text[1], LAMBDA a :
                        Cardinality({ b \in Nodes :
                            /\ Is(text[4], b)
                            /\ IndexedHolds(text[2], int(text[3]), a, b) }))

\* C26: a relation followed by a number is accepted for >, >-, <, <-, <<< and
\* <<<-, with the index -k when the relation ends in - and k otherwise; for
\* any other relation the pattern is rejected with a parse error
C26_IndexedRelations ==
    IsIndexed =>
        /\ text[2] \in IndexedKeys => IndexedAccepted
        /\ text[2] \notin IndexedKeys /\ pc # "text" => pc = "error"

----------------------------------------------------------------------------
(* Disjunctions of three alternatives *)

\* tregex.py: the pattern is an anchor followed by three or more alternatives
ManyAlternatives == engine = "tregex" /\ text = <<>> /\ Len(pat.alts) >= 3

\* C25: of a disjunction written with n >= 3 alternatives the parser builds
\* the list of the n parsed alternatives in the order written, and matching
\* adds up the counts of the n alternatives at every anchor and raises no error
C25_EveryAlternative ==
    ManyAlternatives =>
        /\ pc # "error"
        /\ pc = "or_conditions" =>
                conditions = [k \in 1..Len(pat.alts) |->
                                p_and_conditions(pat.alts[k], 1, <<>>, EmptyMap).val]
        /\ pc = "done" =>
                \A n \in Nodes :
                    Count(n, result) =
                        IF n \in Range(match_node_descriptions(pat.nd))
                        THEN SeqSum([k \in 1..Len(pat.alts) |->
                                        WrittenAlone(pat.alts[k], n, pat.name).match_count])
                        ELSE 0

----------------------------------------------------------------------------
(* The names of an And *)

\* C27: when append_condition or extend_conditions raises, the conditions and
\* the names of the And are as they were before the call, also when a later
\* condition of several is the one that declares a name again
C27_FailedCallLeavesAnd ==
    [][ (engine = "condition" /\ pc = "start" /\ pc' = "error") => pat' = pat ]_vars

\* the names that a condition declares: that of its node descriptions, and
\* those of the conditions below a Not, an Opt, an Or or an And
RECURSIVE DeclaredBy(_)
DeclaredBy(cond) ==
    CASE cond.type \in {"Not", "Opt"} -> DeclaredBy(cond.condition)
      [] cond.type = "Condition" ->
            IF cond.node_descriptions.name = NoName THEN {}
            ELSE {cond.node_descriptions.name}
      [] cond.type \in {"And", "Or"} ->
            UNION { DeclaredBy(cond.conditions[k]) : k \in 1..Len(cond.conditions) }

\* the And and Or conditions at and below a condition
RECURSIVE Groups(_)
Groups(cond) ==
    CASE cond.type \in {"Not", "Opt"} -> Groups(cond.condition)
      [] cond.type = "Condition" -> {}
      [] cond.type \in {"And", "Or"} ->
            {cond} \cup UNION { Groups(cond.conditions[k]) : k \in 1..Len(cond.conditions) }

\* the conjuncts of the And declare no name twice, and names holds the names
\* they declare
NamesOf(and) ==
    /\ \A i \in 1..Len(and.conditions) : \A j \in 1..Len(and.conditions) :
            i # j => DeclaredBy(and.conditions[i]) \cap DeclaredBy(and.conditions[j]) = {}
    /\ and.names = DeclaredBy(and)

\* C28: no two conjuncts of an And declare a common name, and the names of the
\* And are the names its conjuncts declare, also when an And or Or is given
\* further conditions after it has become a conjunct
C28_NamesOfConjuncts ==
    (engine = "condition" /\ pc # "error" /\ pat.condition # NoCondition)
        => \A g \in Groups(pat.condition) : g.type = "And" => NamesOf(g)

----------------------------------------------------------------------------
(* The nodes bound to a name when findall has returned *)

\* tregex.py: findall has returned for a pattern whose anchor is named
NamedAnchorDone ==
    engine = "tregex" /\ text = <<>> /\ pc = "done" /\ pat.name # NoName

\* C29: when findall has returned for a pattern whose anchor is named n, every
\* node bound to n is a node of the result; a candidate of the anchor that the
\* conditions have filtered out, as in `A=n !< B`, is not bound to n
C29_AnchorBindingsAreResults ==
    NamedAnchorDone =>
        /\ pat.name \in DOMAIN self_backrefs_map
        /\ Range(self_backrefs_map[pat.name]) \subseteq Range(result)

\* tregex.py: findall has returned for a pattern `x r ( y=n > z )` or
\* `x r ( y > z=n )`
NamedInsideDone ==
    engine = "tregex" /\ text = <<>> /\ pc = "done" /\ pat \in T_NamedInside

\* the node b, bound to n, takes part in a match of the whole pattern: a node
\* of the result is in the outer relation to a node that the sub-pattern holds
\* of, and b is the node of that match that the name is written at
TakesPart(b) ==
    LET outer == pat.conds[1]
        inner == outer.those
        below == inner.conds[1]
    IN  \E a \in Range(result) : \E s \in Nodes : \E d \in Nodes :
            /\ condition_func(outer.rel, a, s)
            /\ s \in Range(match_node_descriptions(inner.nd))
            /\ condition_func(below.rel, s, d)
            /\ d \in Range(match_node_descriptions(below.those.nd))
            /\ b = IF inner.name # NoName THEN s ELSE d

\* C30: when findall has returned, every node bound to a name that is declared
\* inside a parenthesised sub-pattern takes part in a match of the whole
\* pattern; no node is bound to the name when findall returns no match
C30_InnerBindingsTakePart ==
    NamedInsideDone =>
        \A b \in Range(IF "n" \in DOMAIN self_backrefs_map THEN self_backrefs_map["n"]
                       ELSE <<>>) : TakesPart(b)

====
